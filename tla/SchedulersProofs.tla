--------------------------- MODULE SchedulersProofs ---------------------------
(***************************************************************************)
(* What the two schedulers promise, for every number of Times, threads,    *)
(* dates and clocks.                                                       *)
(*                                                                         *)
(* Scheduler2: one late scan at most, one deactivation per timeout, and no *)
(* handler before its timeout.  The first two follow from the control of   *)
(* the loops alone.  The third needs the dates as well, and two rules of   *)
(* use that the code does not enforce: see SchedulerFiresWhenDue.          *)
(*                                                                         *)
(* The first scheduler: a list without repetitions, no handler before its  *)
(* timeout, and no deactivation of a neighbour.                            *)
(*                                                                         *)
(* The calendar: the search of Times2 finds the next date of a schedule,   *)
(* and implements that of Times.                                           *)
(***************************************************************************)
EXTENDS Scheduler2, FirstScheduler, Times2Calendar, FiniteSetTheorems, SequenceTheorems, WellFoundedInduction, TLAPS

(***************************************************************************)
(* The loops of operator(), the list of active Times2 and the state of the *)
(* scan, whatever the clocks say.  Before the update of an expired Times2, *)
(* the scan stands at it; the list cannot change until its handler runs.   *)
(***************************************************************************)
ControlTypes ==
    /\ status \in {"INITIALIZED", "STARTED", "SUSPENDED"}
    /\ timesList \in Seq(Times) /\ Len(timesList) <= MaxListed
    /\ pc \in [Loops -> {"ended", "check", "scan", "update", "handler",
                         "sleep", "dead"}]
    /\ mutex \in Loops \cup {NoThread}
    /\ \A l \in Loops : mutex = l <=> pc[l] \in {"scan", "update", "handler"}
    /\ index \in 1..MaxListed + 1
    /\ at \in Times \cup {NoTimes}
    /\ deactived \in BOOLEAN
    /\ lateScans \in [Loops -> Nat]
    /\ rulesKept \in BOOLEAN

ScanOK ==
    \A l \in Loops :
        /\ pc[l] = "update" => /\ index \in 1..Len(timesList)
                               /\ timesList[index] = at
                               /\ ~deactived
        /\ pc[l] = "handler" => index <= MaxListed

\* A late scan was read STARTED before suspend or cancel: no loop begins
\* another one before the scheduler is started or resumed.
LateOK ==
    \A l \in Loops : /\ lateScans[l] <= 1
                     /\ status = "STARTED" \/ pc[l] = "check" => lateScans[l] = 0

ControlInv == ControlTypes /\ ScanOK /\ LateOK

\* A date that is the local time of an instant.
IsLocal(date) ==
    date.wall \in Nat /\ Utc(date) \in Nat /\ date = Local(Utc(date))

TimesTypes ==
    /\ now \in Time
    /\ times \in [Times -> [status : {"INITIALIZED", "STARTED"},
                            current : Date, next : Date]]
    /\ \A x \in Times : IsStarted(x) /\ IsPeriodic(x) =>
            times[x].next.wall \in Nat /\ Utc(times[x].next) \in Nat

\* The dates of a started Times2 are local times, the current one has passed
\* and the next one comes a period, or on the calendar, after it.
DatesOK ==
    rulesKept => \A x \in Times : IsStarted(x) =>
        /\ IsLocal(times[x].current)
        /\ IsLocal(times[x].next)
        /\ Utc(times[x].current) <= now
        /\ Utc(times[x].current) <= Utc(times[x].next)
        /\ IsPeriodic(x) =>
                Utc(times[x].next) = Utc(times[x].current) + Period[x]
        /\ ~IsPeriodic(x) => times[x].next.wall \in Schedule[x]

DueOK ==
    rulesKept => \A l \in Loops : pc[l] = "update" =>
        IsStarted(at) /\ Utc(times[at].next) <= now

IInv == ControlInv /\ TimesTypes /\ DatesOK /\ DueOK

-----------------------------------------------------------------------------
LEMMA RemoveAtFacts ==
    ASSUME NEW S, NEW s \in Seq(S), NEW k \in 1..Len(s)
    PROVE  /\ Vector!RemoveAt(s, k) \in Seq(S)
           /\ Len(Vector!RemoveAt(s, k)) = Len(s) - 1
           /\ \A i \in 1..Len(s) - 1 :
                    Vector!RemoveAt(s, k)[i] = IF i < k THEN s[i] ELSE s[i + 1]
  <1> DEFINE before == SubSeq(s, 1, k - 1)
             after == SubSeq(s, k + 1, Len(s))
  <1>1. Len(s) \in Nat /\ k \in 1..Len(s) /\ \A i \in 1..Len(s) : s[i] \in S
    OBVIOUS
  <1>2. /\ before \in Seq(S)
        /\ Len(before) = k - 1
        /\ \A i \in 1..k - 1 : before[i] = s[i]
    BY <1>1
  <1>3. /\ after \in Seq(S)
        /\ Len(after) = Len(s) - k
        /\ \A i \in 1..Len(s) - k : after[i] = s[k + i]
    BY <1>1
  <1>4. Vector!RemoveAt(s, k) = before \o after
    BY DEF Vector!RemoveAt
  <1> HIDE DEF before, after
  <1> DEFINE r == before \o after
  <1>5. /\ r \in Seq(S)
        /\ Len(r) = (k - 1) + (Len(s) - k)
        /\ \A i \in 1..(k - 1) + (Len(s) - k) :
                r[i] = IF i <= k - 1 THEN before[i] ELSE after[i - (k - 1)]
    <2>1. /\ r \in Seq(S)
          /\ Len(r) = Len(before) + Len(after)
          /\ \A i \in 1..Len(before) + Len(after) :
                r[i] = IF i <= Len(before) THEN before[i] ELSE after[i - Len(before)]
      BY <1>2, <1>3, ConcatProperties, Zenon
    <2> HIDE DEF r
    <2> QED
      BY <1>2, <1>3, <2>1
  <1> HIDE DEF r
  <1>6. ASSUME NEW i \in 1..Len(s) - 1
        PROVE  r[i] = IF i < k THEN s[i] ELSE s[i + 1]
    <2>1. CASE i < k
      <3>1. i \in 1..k - 1 /\ i \in 1..(k - 1) + (Len(s) - k) /\ i <= k - 1
        BY <1>1, <2>1
      <3>2. r[i] = before[i] /\ before[i] = s[i]
        BY <1>2, <1>5, <3>1
      <3> QED
        BY <2>1, <3>2
    <2>2. CASE ~(i < k)
      <3>1. r[i] = after[i - (k - 1)]
        <4>1. i \in 1..(k - 1) + (Len(s) - k) /\ ~(i <= k - 1)
          BY <1>1, <2>2
        <4> QED
          BY <1>5, <4>1
      <3>2. i - (k - 1) \in 1..Len(s) - k /\ k + (i - (k - 1)) = i + 1
        BY <1>1, <2>2
      <3> QED
        BY <1>3, <2>2, <3>1, <3>2
    <2> QED
      BY <2>1, <2>2
  <1>7. Len(r) = Len(s) - 1
    BY <1>1, <1>5
  <1> QED
    BY <1>4, <1>5, <1>6, <1>7 DEF r

(***************************************************************************)
(* Taking the k-th element out of a list takes one occurrence of it out,   *)
(* and none of the others.                                                 *)
(***************************************************************************)
Occurrences(s, x) == {i \in 1..Len(s) : s[i] = x}

LEMMA ListedRemoveAt ==
    ASSUME NEW S, NEW s \in Seq(S), NEW k \in 1..Len(s), NEW x
    PROVE  /\ Cardinality(Occurrences(s, x)) \in Nat
           /\ Cardinality(Occurrences(Vector!RemoveAt(s, k), x)) =
                Cardinality(Occurrences(s, x)) - IF s[k] = x THEN 1 ELSE 0
  <1> DEFINE r == Vector!RemoveAt(s, k)
             Kept == Occurrences(s, x) \ {k}
             f == [i \in Kept |-> IF i < k THEN i ELSE i - 1]
  <1>1. Len(s) \in Nat /\ k \in 1..Len(s)
    OBVIOUS
  <1>2. /\ Len(r) = Len(s) - 1
        /\ \A i \in 1..Len(s) - 1 : r[i] = IF i < k THEN s[i] ELSE s[i + 1]
    BY RemoveAtFacts
  <1>3. IsFiniteSet(Occurrences(s, x))
    <2>1. IsFiniteSet(1..Len(s))
      BY <1>1, FS_Interval
    <2> QED
      BY <2>1, FS_Subset DEF Occurrences
  <1>4. Cardinality(Occurrences(s, x)) \in Nat
    BY <1>3, FS_CardinalityType
  <1> HIDE DEF r
  <1>5. f \in Bijection(Kept, Occurrences(r, x))
    <2>1. ASSUME NEW i \in Kept
          PROVE  f[i] \in Occurrences(r, x)
      <3>1. i \in 1..Len(s) /\ i # k /\ s[i] = x
        BY DEF Occurrences
      <3>2. CASE i < k
        <4>1. i \in 1..Len(s) - 1 /\ f[i] = i
          BY <1>1, <3>1, <3>2
        <4> QED
          BY <1>2, <3>1, <3>2, <4>1 DEF Occurrences
      <3>3. CASE ~(i < k)
        <4>1. i - 1 \in 1..Len(s) - 1 /\ f[i] = i - 1 /\ ~(i - 1 < k) /\ (i - 1) + 1 = i
          BY <1>1, <3>1, <3>3
        <4> QED
          BY <1>2, <3>1, <4>1 DEF Occurrences
      <3> QED
        BY <3>2, <3>3
    <2>2. ASSUME NEW i \in Kept, NEW j \in Kept, f[i] = f[j]
          PROVE  i = j
      BY <1>1, <2>2 DEF Occurrences
    <2>3. ASSUME NEW j \in Occurrences(r, x)
          PROVE  \E i \in Kept : f[i] = j
      <3>1. CASE j < k
        <4>1. j \in Kept /\ f[j] = j
          BY <1>1, <1>2, <3>1 DEF Occurrences
        <4> QED
          BY <4>1
      <3>2. CASE j >= k
        <4>1. j + 1 \in Kept /\ f[j + 1] = j
          BY <1>1, <1>2, <3>2 DEF Occurrences
        <4> QED
          BY <4>1
      <3> QED
        BY <1>1, <1>2, <3>1, <3>2 DEF Occurrences
    <2> QED
      BY <2>1, <2>2, <2>3 DEF Bijection, Injection, Surjection, IsInjective
  <1>6. IsFiniteSet(Kept)
    BY <1>3, FS_Subset
  <1> HIDE DEF Kept, f
  <1>7. Cardinality(Occurrences(r, x)) = Cardinality(Kept)
    <2>1. ExistsBijection(Kept, Occurrences(r, x))
      BY <1>5 DEF ExistsBijection
    <2> QED
      BY <1>6, <2>1, FS_Bijection
  <1>8. CASE s[k] = x
    <2>1. k \in Occurrences(s, x)
      BY <1>8 DEF Occurrences
    <2>2. Cardinality(Kept) = Cardinality(Occurrences(s, x)) - 1
      BY <1>3, <2>1, FS_RemoveElement DEF Kept
    <2> QED
      BY <1>4, <1>7, <1>8, <2>2 DEF r
  <1>9. CASE s[k] # x
    <2>1. Kept = Occurrences(s, x)
      BY <1>9 DEF Occurrences, Kept
    <2> QED
      BY <1>4, <1>7, <1>9, <2>1 DEF r
  <1> QED
    BY <1>8, <1>9

-----------------------------------------------------------------------------
(***************************************************************************)
(* The control of the loops, with no hypothesis at all.                    *)
(***************************************************************************)
LEMMA ControlInit == Init => ControlInv
  <1> SUFFICES ASSUME Init PROVE ControlInv
    OBVIOUS
  <1> USE SchedulerAssumption
  <1>1. timesList \in Seq(Times) /\ Len(timesList) = 0
    BY DEF Init
  <1>2. ControlTypes
    <2>1. /\ pc \in [Loops -> {"ended", "check", "scan", "update", "handler",
                              "sleep", "dead"}]
          /\ lateScans \in [Loops -> Nat]
      BY DEF Init
    <2>2. index \in 1..MaxListed + 1
      BY DEF Init, NoScan
    <2>3. \A l \in Loops : mutex = l <=> pc[l] \in {"scan", "update", "handler"}
      BY DEF Init
    <2>4. /\ status = "INITIALIZED" /\ mutex = NoThread /\ at = NoTimes
          /\ deactived \in BOOLEAN /\ rulesKept \in BOOLEAN
      BY DEF Init, NoScan
    <2>5. Len(timesList) <= MaxListed
      BY <1>1
    <2> QED
      BY <1>1, <2>1, <2>2, <2>3, <2>4, <2>5 DEF ControlTypes
  <1>3. ScanOK /\ LateOK
    BY DEF Init, NoScan, ScanOK, LateOK
  <1> QED
    BY <1>2, <1>3 DEF ControlInv

\* The steps that leave the loops where they are.
LEMMA ControlClient == ControlInv /\ Client => ControlInv'
  <1> SUFFICES ASSUME ControlInv, Client PROVE ControlInv'
    OBVIOUS
  <1> USE SchedulerAssumption DEF ControlInv
  <1>1. CASE \/ Pass
             \/ \E x \in Times : \/ StopTimes(x)
                                 \/ \E date \in StartDates \cup {NoDate} :
                                        StartTimes(x, date)
    <2>1. /\ UNCHANGED <<status, lateScans, timesList, mutex, pc, index, at, deactived>>
          /\ rulesKept' \in BOOLEAN
      BY <1>1 DEF Pass, StopTimes, StartTimes, Keep, control, scan, ControlTypes
    <2> QED
      BY <2>1 DEF ControlTypes, ScanOK, LateOK
  <1>2. CASE Suspend \/ Resume \/ Cancel
    <2>1. /\ UNCHANGED <<rulesKept, timesList, mutex, pc, index, at, deactived>>
          /\ status' \in {"INITIALIZED", "STARTED", "SUSPENDED"}
          /\ \/ lateScans' = [l \in Loops |-> 0]
             \/ status' # "STARTED" /\ UNCHANGED lateScans
      BY <1>2 DEF Suspend, Resume, Cancel, NoLateScans, scan
    <2>2. lateScans' \in [Loops -> Nat]
      BY <2>1 DEF ControlTypes
    <2>3. ControlTypes' /\ ScanOK'
      BY <2>1, <2>2 DEF ControlTypes, ScanOK
    <2>4. LateOK'
      BY <2>1 DEF LateOK
    <2> QED
      BY <2>3, <2>4
  <1>3. CASE \E x \in Times : ActiveTimes(x) \/ DeactiveTimes(x)
    <2>1. /\ CanLock
          /\ UNCHANGED <<rulesKept, status, lateScans, mutex, pc, index, at, deactived>>
      BY <1>3 DEF ActiveTimes, DeactiveTimes, control, scan
    <2>2. timesList' \in Seq(Times) /\ Len(timesList') <= MaxListed
      <3>1. ASSUME NEW x \in Times, ActiveTimes(x)
            PROVE  timesList' \in Seq(Times) /\ Len(timesList') <= MaxListed
        BY <3>1 DEF ActiveTimes, ControlTypes
      <3>2. ASSUME NEW x \in Times, DeactiveTimes(x)
            PROVE  timesList' \in Seq(Times) /\ Len(timesList') <= MaxListed
        <4>1. PICK i \in 1..Len(timesList) : timesList' = Vector!RemoveAt(timesList, i)
          BY <3>2 DEF DeactiveTimes
        <4>2. timesList \in Seq(Times) /\ Len(timesList) <= MaxListed
          BY DEF ControlTypes
        <4> QED
          BY <4>1, <4>2, RemoveAtFacts
      <3> QED
        BY <1>3, <3>1, <3>2
    <2>3. \A l \in Loops : pc[l] # "update"
      BY <2>1 DEF CanLock, ControlTypes
    <2>4. ControlTypes'
      BY <2>1, <2>2 DEF ControlTypes
    <2>5. ScanOK'
      BY <2>1, <2>3 DEF ScanOK
    <2>6. LateOK'
      BY <2>1 DEF LateOK
    <2> QED
      BY <2>4, <2>5, <2>6
  <1> QED
    BY <1>1, <1>2, <1>3 DEF Client

\* Where a loop goes, the others stay where they were.
LEMMA ControlLoop ==
    ASSUME NEW l \in Loops, ControlInv,
           Begin(l) \/ Loop(l) \/ HandlerReturns(l) \/ HandlerThrows(l)
    PROVE  ControlInv'
  <1> USE SchedulerAssumption DEF ControlInv
  <1> DEFINE Labels == {"ended", "check", "scan", "update", "handler",
                        "sleep", "dead"}
             Inside == {"scan", "update", "handler"}
  <1>t. /\ timesList \in Seq(Times) /\ Len(timesList) <= MaxListed
        /\ Len(timesList) \in Nat
        /\ pc \in [Loops -> Labels]
        /\ \A m \in Loops : mutex = m <=> pc[m] \in Inside
        /\ MaxListed \in Nat /\ NoThread \notin Loops
    BY DEF ControlTypes
  <1>s. ASSUME pc[l] \in Inside, mutex' = NoThread, ScanEnds,
               NEW p \in {"sleep", "dead"}, pc' = [pc EXCEPT ![l] = p],
               rulesKept' \in BOOLEAN, UNCHANGED <<control, timesList>>
        PROVE  ControlInv'
    <2>1. \A m \in Loops : ~(pc'[m] \in Inside)
      BY <1>s, <1>t
    <2>2. pc' \in [Loops -> Labels]
      BY <1>s, <1>t
    <2>3. index' \in 1..MaxListed + 1
      BY <1>s, <1>t DEF ScanEnds
    <2>4. at' \in Times \cup {NoTimes} /\ deactived' \in BOOLEAN
      BY <1>s DEF ScanEnds
    <2>5. ControlTypes'
      BY <1>s, <2>1, <2>2, <2>3, <2>4 DEF control, ControlTypes
    <2>6. ScanOK'
      BY <2>1 DEF ScanOK
    <2>7. LateOK'
      BY <1>s, <1>t DEF control, LateOK
    <2> QED
      BY <2>5, <2>6, <2>7
  <1>1. CASE Begin(l)
    <2>1. ControlTypes'
      BY <1>1 DEF Begin, Goto, NoLateScans, scan, ControlTypes
    <2>2. ScanOK'
      BY <1>1, <1>t DEF Begin, Goto, scan, ScanOK
    <2>3. LateOK'
      BY <1>1, <1>t DEF Begin, NoLateScans, LateOK
    <2> QED
      BY <2>1, <2>2, <2>3
  <1>2. CASE ReadStatus(l)
    <2>1. \E p \in {"check", "sleep", "ended"} :
                /\ pc' = [pc EXCEPT ![l] = p]
                /\ p = "check" => status = "STARTED"
      BY <1>2 DEF ReadStatus, Goto, ControlTypes
    <2>2. /\ pc[l] = "sleep"
          /\ UNCHANGED <<rulesKept, status, lateScans, timesList, mutex, index, at, deactived>>
      BY <1>2 DEF ReadStatus, control, scan
    <2>3. ControlTypes'
      BY <2>1, <2>2 DEF ControlTypes
    <2>4. ScanOK'
      BY <1>t, <2>1, <2>2 DEF ScanOK
    <2>5. LateOK'
      BY <1>t, <2>1, <2>2 DEF LateOK
    <2> QED
      BY <2>3, <2>4, <2>5
  <1>3. CASE EnterScan(l)
    <2>1. ControlTypes'
      BY <1>3 DEF EnterScan, Goto, scan, ControlTypes
    <2>2. ScanOK'
      BY <1>3, <1>t DEF EnterScan, Goto, scan, ScanOK
    <2>3. LateOK'
      <3>1. lateScans \in [Loops -> Nat] /\ lateScans[l] = 0
        BY <1>3 DEF EnterScan, LateOK, ControlTypes
      <3> QED
        BY <1>3, <1>t, <3>1 DEF EnterScan, Goto, LateOK
    <2> QED
      BY <2>1, <2>2, <2>3
  <1>4. CASE LeaveScan(l)
    BY <1>4, <1>s DEF LeaveScan, Goto, ControlTypes
  <1>5. CASE Look(l)
    <2>1. /\ pc[l] = "scan" /\ index <= Len(timesList)
          /\ at' = timesList[index] /\ deactived' = FALSE
          /\ UNCHANGED <<rulesKept, status, lateScans, timesList, mutex>>
          /\ \/ pc' = [pc EXCEPT ![l] = "update"] /\ index' = index
             \/ index' = index + 1 /\ pc' = pc
      BY <1>5 DEF Look, Goto, control
    <2>2. index \in 1..Len(timesList) /\ timesList[index] \in Times
      BY <1>t, <2>1 DEF ControlTypes
    <2>3. ControlTypes'
      <3>1. pc' \in [Loops -> Labels]
        BY <1>t, <2>1
      <3>2. \A m \in Loops : mutex' = m <=> pc'[m] \in Inside
        BY <1>t, <2>1
      <3>3. index' \in 1..MaxListed + 1
        BY <1>t, <2>1, <2>2
      <3>4. at' \in Times \cup {NoTimes} /\ deactived' \in BOOLEAN
        BY <2>1, <2>2
      <3> QED
        BY <2>1, <3>1, <3>2, <3>3, <3>4 DEF ControlTypes
    <2>4. ScanOK'
      BY <1>t, <2>1, <2>2 DEF ScanOK
    <2>5. LateOK'
      BY <1>t, <2>1 DEF LateOK
    <2> QED
      BY <2>3, <2>4, <2>5
  <1>6. CASE UpdateTimes(l)
    <2>1. CASE UpdateFailed(at) /\ Die(l) /\ UNCHANGED rulesKept
      <3>1. pc[l] = "update"
        BY <1>6 DEF UpdateTimes
      <3> QED
        BY <1>s, <2>1, <3>1 DEF Die, Goto, ControlTypes
    <2>2. CASE ~UpdateFails(at) /\ Update(at)
               /\ deactived' = IsLast(at, times[at].next)
               /\ timesList' = (IF IsLast(at, times[at].next)
                                THEN Vector!RemoveAt(timesList, index) ELSE timesList)
               /\ Goto(l, "handler")
               /\ UNCHANGED <<rulesKept, now, control, mutex, index, at>>
      <3>1. pc[l] = "update" /\ index \in 1..Len(timesList)
        BY <1>6 DEF UpdateTimes, ScanOK
      <3>2. /\ timesList' \in Seq(Times)
            /\ Len(timesList') <= MaxListed
        BY <1>t, <2>2, <3>1, RemoveAtFacts
      <3>3. deactived' \in BOOLEAN
        BY <2>2 DEF IsLast
      <3>4. ControlTypes'
        BY <1>t, <2>2, <3>1, <3>2, <3>3 DEF Goto, control, ControlTypes
      <3>5. ScanOK'
        BY <1>t, <2>2, <3>1 DEF Goto, ScanOK
      <3>6. LateOK'
        BY <1>t, <2>2, <3>1 DEF Goto, control, LateOK
      <3> QED
        BY <3>4, <3>5, <3>6
    <2> QED
      BY <1>6, <2>1, <2>2 DEF UpdateTimes
  <1>7. CASE HandlerReturns(l)
    <2>1. index' \in 1..MaxListed + 1
      BY <1>7, <1>t DEF HandlerReturns, ScanOK, ControlTypes
    <2>2. ControlTypes'
      BY <1>7, <1>t, <2>1 DEF HandlerReturns, Goto, control, ControlTypes
    <2>3. ScanOK'
      BY <1>7, <1>t DEF HandlerReturns, Goto, ScanOK
    <2>4. LateOK'
      BY <1>7, <1>t DEF HandlerReturns, Goto, control, LateOK
    <2> QED
      BY <2>2, <2>3, <2>4
  <1>8. CASE HandlerThrows(l)
    <2>0. pc[l] = "handler" /\ rulesKept' \in BOOLEAN
      BY <1>8 DEF HandlerThrows, Keep, ControlTypes
    <2>1. CASE Die(l)
      BY <1>s, <2>0, <2>1 DEF Die, Goto
    <2>2. CASE /\ Goto(l, "scan")
               /\ \/ UNCHANGED <<timesList, deactived>>
                  \/ /\ index <= Len(timesList)
                     /\ timesList' = Vector!RemoveAt(timesList, index)
                     /\ deactived' = TRUE
               /\ UNCHANGED <<now, control, mutex, index, at>>
      <3>1. timesList' \in Seq(Times) /\ Len(timesList') <= MaxListed
        <4>1. index \in 1..MaxListed + 1
          BY DEF ControlTypes
        <4>2. index <= Len(timesList) => index \in 1..Len(timesList)
          BY <1>t, <4>1
        <4> QED
          BY <1>t, <2>2, <4>2, RemoveAtFacts
      <3>2. ControlTypes'
        BY <1>t, <2>0, <2>2, <3>1 DEF Goto, control, ControlTypes
      <3>3. ScanOK'
        BY <1>t, <2>0, <2>2 DEF Goto, ScanOK
      <3>4. LateOK'
        BY <1>t, <2>0, <2>2 DEF Goto, control, LateOK
      <3> QED
        BY <3>2, <3>3, <3>4
    <2> QED
      BY <1>8, <2>1, <2>2 DEF HandlerThrows, scan
  <1> QED
    BY <1>1, <1>2, <1>3, <1>4, <1>5, <1>6, <1>7, <1>8 DEF Loop

LEMMA ControlStep == ControlInv /\ [Next]_vars => ControlInv'
  <1> SUFFICES ASSUME ControlInv, [Next]_vars PROVE ControlInv'
    OBVIOUS
  <1>1. CASE UNCHANGED vars
    BY <1>1 DEF vars, control, scan, ControlInv, ControlTypes, ScanOK, LateOK
  <1>2. CASE Next
    BY <1>2, ControlClient, ControlLoop DEF Next
  <1> QED
    BY <1>1, <1>2

(***************************************************************************)
(* A thread in operator() begins one scan at most after suspend or cancel. *)
(***************************************************************************)
THEOREM SchedulerOneLateScan == Spec => []OneLateScan
  <1>1. ControlInv => OneLateScan
    BY DEF ControlInv, LateOK, OneLateScan
  <1> QED
    BY <1>1, ControlInit, ControlStep, PTL DEF Spec

-----------------------------------------------------------------------------
LEMMA ListedNat ==
    ASSUME NEW S, NEW s \in Seq(S), NEW x
    PROVE  Cardinality(Occurrences(s, x)) \in Nat
  <1>1. Len(s) \in Nat
    OBVIOUS
  <1>2. IsFiniteSet(1..Len(s))
    BY <1>1, FS_Interval
  <1>3. IsFiniteSet(Occurrences(s, x))
    BY <1>2, FS_Subset DEF Occurrences
  <1> QED
    BY <1>3, FS_CardinalityType

LEMMA ListedStep ==
    ASSUME timesList \in Seq(Times),
           \/ UNCHANGED timesList /\ (deactived' => deactived)
           \/ /\ index \in 1..Len(timesList) /\ timesList[index] = at
              /\ deactived' /\ ~deactived
              /\ timesList' = Vector!RemoveAt(timesList, index),
           NEW x \in Times
    PROVE  Listed(x)' = Listed(x) - IF x = at /\ deactived' /\ ~deactived THEN 1 ELSE 0
  <1>1. /\ Listed(x) = Cardinality(Occurrences(timesList, x))
        /\ Listed(x)' = Cardinality(Occurrences(timesList', x))
    BY DEF Listed, Occurrences
  <1>2. Cardinality(Occurrences(timesList, x)) \in Nat
    BY ListedNat
  <1>3. CASE UNCHANGED timesList /\ (deactived' => deactived)
    BY <1>1, <1>2, <1>3
  <1>4. CASE /\ index \in 1..Len(timesList) /\ timesList[index] = at
             /\ deactived' /\ ~deactived
             /\ timesList' = Vector!RemoveAt(timesList, index)
    <2>1. Cardinality(Occurrences(Vector!RemoveAt(timesList, index), x)) =
                Cardinality(Occurrences(timesList, x)) -
                    IF timesList[index] = x THEN 1 ELSE 0
      BY <1>4, ListedRemoveAt
    <2> QED
      BY <1>1, <1>4, <2>1
  <1> QED
    BY <1>3, <1>4

(***************************************************************************)
(* From the timeout to the end of its handler, handleTimes takes off the   *)
(* list nothing but the Times2 that timed out, and that once.  This is     *)
(* where the index of a scan must not be older than the list.              *)
(***************************************************************************)
THEOREM SchedulerDeactivatesOnce == Spec => DeactivatesOnce
  <1> DEFINE Removed(l) ==
                rulesKept' /\ pc[l] \in {"update", "handler"} /\ pc'[l] # pc[l] =>
                    \A x \in Times :
                        Listed(x)' = Listed(x) -
                            IF x = at /\ deactived' /\ ~deactived THEN 1 ELSE 0
  <1>1. ASSUME ControlInv, [Next]_vars, NEW l \in Loops
        PROVE  Removed(l)
    <2> SUFFICES ASSUME rulesKept', pc[l] \in {"update", "handler"}, pc'[l] # pc[l],
                        NEW x \in Times
                 PROVE  Listed(x)' = Listed(x) -
                            IF x = at /\ deactived' /\ ~deactived THEN 1 ELSE 0
      OBVIOUS
    <2>1. /\ timesList \in Seq(Times) /\ Len(timesList) \in Nat
          /\ pc \in [Loops -> {"ended", "check", "scan", "update", "handler",
                               "sleep", "dead"}]
          /\ index \in 1..MaxListed + 1
          /\ deactived \in BOOLEAN
      BY <1>1 DEF ControlInv, ControlTypes
    <2>2. ~UNCHANGED vars
      BY DEF vars
    <2>3. ~Client
      BY DEF Client, Pass, Suspend, Resume, Cancel, StartTimes, StopTimes,
             ActiveTimes, DeactiveTimes
    <2>4. PICK m \in Loops : Begin(m) \/ Loop(m) \/ HandlerReturns(m) \/ HandlerThrows(m)
      BY <1>1, <2>2, <2>3 DEF Next
    <2>5. m = l
      BY <2>1, <2>4 DEF Begin, Loop, ReadStatus, EnterScan, LeaveScan, Look,
                        UpdateTimes, HandlerReturns, HandlerThrows, Die, Goto
    <2>6. UpdateTimes(l) \/ HandlerReturns(l) \/ HandlerThrows(l)
      BY <2>4, <2>5 DEF Begin, Loop, ReadStatus, EnterScan, LeaveScan, Look
    <2>7. CASE UpdateTimes(l)
      <3>1. /\ index \in 1..Len(timesList) /\ timesList[index] = at
            /\ ~deactived
        BY <1>1, <2>7 DEF UpdateTimes, ControlInv, ScanOK
      <3>2. CASE Die(l)
        BY <2>1, <3>2, ListedStep DEF Die, ScanEnds
      <3>3. CASE IsLast(at, times[at].next) /\ ~Die(l)
        BY <2>1, <2>7, <3>1, <3>3, ListedStep DEF UpdateTimes
      <3>4. CASE ~IsLast(at, times[at].next) /\ ~Die(l)
        BY <2>1, <2>7, <3>1, <3>4, ListedStep DEF UpdateTimes
      <3> QED
        BY <3>2, <3>3, <3>4
    <2>8. CASE HandlerReturns(l)
      BY <2>1, <2>8, ListedStep DEF HandlerReturns
    <2>9. CASE HandlerThrows(l)
      <3>1. deactived \/ (index <= Len(timesList) /\ timesList[index] = at)
        BY <2>9, Zenon DEF HandlerThrows, Keep
      <3>2. CASE deactived
        BY <2>1, <2>9, <3>2, ListedStep DEF HandlerThrows, scan
      <3>3. CASE ~deactived
        <4>1. /\ index \in 1..Len(timesList) /\ timesList[index] = at
          BY <2>1, <3>1, <3>3
        <4>2. /\ timesList' = Vector!RemoveAt(timesList, index)
              /\ deactived' = TRUE
          BY <2>1, <2>9, <3>3, <4>1 DEF HandlerThrows
        <4> QED
          BY <2>1, <3>3, <4>1, <4>2, ListedStep
      <3> QED
        BY <3>2, <3>3
    <2> QED
      BY <2>6, <2>7, <2>8, <2>9
  <1>2. Spec => []ControlInv
    BY ControlInit, ControlStep, PTL DEF Spec
  <1>3. ControlInv /\ [Next]_vars => [\A l \in Loops : Removed(l)]_vars
    BY <1>1
  <1> HIDE DEF Removed
  <1>4. Spec => [][\A l \in Loops : Removed(l)]_vars
    BY <1>2, <1>3, PTL DEF Spec
  <1> QED
    BY <1>4 DEF Removed, DeactivatesOnce

-----------------------------------------------------------------------------
(***************************************************************************)
(* The local clock and the dates of a Times2.                              *)
(***************************************************************************)
LEMMA LocalFacts ==
    ASSUME NEW u \in Nat
    PROVE  /\ IsLocal(Local(u)) /\ Utc(Local(u)) = u
           /\ Local(u) \in Date
  <1>1. Hour \in Nat /\ DstStart \in Nat /\ DstEnd \in Nat
    BY TimesAssumption
  <1>2. /\ Local(u).wall = u + (IF IsDst(u) THEN Hour ELSE 0)
        /\ Local(u).dst = IsDst(u)
    BY DEF Local, Wall
  <1>3. Utc(Local(u)) = u
    <2>1. CASE IsDst(u)
      BY <1>1, <1>2, <2>1 DEF Utc
    <2>2. CASE ~IsDst(u)
      BY <1>1, <1>2, <2>2 DEF Utc
    <2> QED
      BY <2>1, <2>2
  <1>4. Local(u).wall \in Nat
    BY <1>1, <1>2
  <1>5. IsDst(u) \in BOOLEAN
    BY DEF IsDst
  <1>6. Local(u) \in Date
    BY <1>2, <1>4, <1>5 DEF Date, Local
  <1> QED
    BY <1>3, <1>4, <1>6 DEF IsLocal

LEMMA LeastInstant ==
    ASSUME NEW T, T \subseteq Nat, T # {}
    PROVE  \E x \in T : \A y \in T : x <= y
  <1>1. PICK x \in T : \A y \in T : ~ (<<y, x>> \in OpToRel(<, Nat))
    BY NatLessThanWellFounded, WFMin
  <1>2. \A y \in T : ~ (y < x)
    BY <1>1 DEF OpToRel
  <1> QED
    BY <1>2

LEMMA PeriodFacts ==
    ASSUME NEW x \in Times, IsPeriodic(x), NEW current \in Date, NEW next,
           current.wall \in Nat, Utc(current) \in Nat
    PROVE  /\ NextDate(x, current, next) \in Date
           /\ NextDate(x, current, next).wall \in Nat
           /\ Utc(NextDate(x, current, next)) = Utc(current) + Period[x]
           /\ IsLocal(current) => IsLocal(NextDate(x, current, next))
           /\ Period[x] \in Nat
  <1>1. Period[x] \in Nat
    BY TimesAssumption DEF IsPeriodic
  <1>2. NextDate(x, current, next) = AddSeconds(current, Period[x])
    BY DEF NextDate
  <1>3. CASE Period[x] = 0
    BY <1>2, <1>3 DEF AddSeconds
  <1>4. CASE Period[x] # 0
    <2>1. NextDate(x, current, next) = Local(Utc(current) + Period[x])
      BY <1>2, <1>4 DEF AddSeconds
    <2>2. Utc(current) + Period[x] \in Nat
      BY <1>1
    <2> QED
      BY <1>1, <2>1, <2>2, LocalFacts DEF IsLocal
  <1> QED
    BY <1>1, <1>3, <1>4

LEMMA CalendarFacts ==
    ASSUME NEW x \in Times, ~IsPeriodic(x), NEW current, NEW next
    PROVE  /\ IsLast(x, current) => NextDate(x, current, next) = next
           /\ ~IsLast(x, current) =>
                /\ NextDate(x, current, next) \in Date
                /\ IsLocal(NextDate(x, current, next))
                /\ Utc(NextDate(x, current, next)) > Utc(current)
                /\ NextDate(x, current, next).wall \in Schedule[x]
  <1>1. CASE IsLast(x, current)
    BY <1>1 DEF NextDate
  <1>2. CASE ~IsLast(x, current)
    <2> DEFINE L == Later(x, current)
               u == CHOOSE u \in L : \A v \in L : u <= v
    <2>1. L # {} /\ NextDate(x, current, next) = Local(u)
      BY <1>2 DEF NextDate, IsLast
    <2>2. L \subseteq Nat /\ \A v \in L : v > Utc(current) /\ Local(v).wall \in Schedule[x]
      BY TimesAssumption DEF Later, Time
    <2> HIDE DEF L
    <2>3. u \in L
      BY <2>1, <2>2, LeastInstant
    <2> HIDE DEF u
    <2>4. u \in Nat /\ u > Utc(current) /\ Local(u).wall \in Schedule[x]
      BY <2>2, <2>3
    <2> QED
      BY <1>2, <2>1, <2>4, LocalFacts
  <1> QED
    BY <1>1, <1>2

(***************************************************************************)
(* isExpiredTime is right for the dates of a started Times2, as long as no *)
(* period is longer than daylight saving time: by wall times alone, a      *)
(* timeout after its end could look like one of the hour before.           *)
(***************************************************************************)
ShortPeriods ==
    DstStart < DstEnd =>
        \A x \in DOMAIN Period : Period[x] <= DstEnd - DstStart

LEMMA ExpiredIsDue ==
    ASSUME ShortPeriods, now \in Time, NEW x \in Times,
           IsLocal(times[x].current), IsLocal(times[x].next),
           Utc(times[x].current) <= now,
           IsPeriodic(x) => Utc(times[x].next) = Utc(times[x].current) + Period[x],
           ~IsPeriodic(x) => times[x].next.wall \in Schedule[x],
           IsExpired(x)
    PROVE  Utc(times[x].next) <= now
  <1> DEFINE c == Utc(times[x].current)
             n == Utc(times[x].next)
  <1>1. /\ now \in Nat /\ Hour \in Nat /\ DstStart \in Nat /\ DstEnd \in Nat
        /\ c \in Nat /\ n \in Nat /\ c <= now
    BY TimesAssumption DEF Time, IsLocal
  <1>2. /\ times[x].current.dst = IsDst(c)
        /\ times[x].next.dst = IsDst(n)
        /\ times[x].next.wall = n + (IF IsDst(n) THEN Hour ELSE 0)
        /\ Local(now).dst = IsDst(now)
        /\ Local(now).wall = now + (IF IsDst(now) THEN Hour ELSE 0)
    <2>1. times[x].current = Local(c) /\ times[x].next = Local(n)
      BY DEF IsLocal
    <2> HIDE DEF c, n
    <2> QED
      BY <2>1 DEF Local, Wall
  <1>3. times[x].next.wall # NoDate
    BY TimesAssumption DEF IsLocal
  <1>4. /\ ~(IsDst(now) /\ IsDst(c) /\ ~IsDst(n))
        /\ \/ ~IsDst(now) /\ IsDst(c) /\ IsDst(n)
           \/ n + (IF IsDst(n) THEN Hour ELSE 0) <= now + (IF IsDst(now) THEN Hour ELSE 0)
    BY <1>2, <1>3 DEF IsExpired, Empty
  <1>5. /\ IsPeriodic(x) /\ DstStart < DstEnd => n <= c + (DstEnd - DstStart)
        /\ ~IsPeriodic(x) => \/ IsDst(n)
                             \/ n < DstEnd
                             \/ n >= DstEnd + Hour
    <2>1. CASE IsPeriodic(x)
      BY <1>1, <2>1, TimesAssumption DEF ShortPeriods, IsPeriodic
    <2>2. CASE ~IsPeriodic(x)
      <3>1. x \in DOMAIN Schedule
        BY <2>2, TimesAssumption DEF IsPeriodic
      <3>2. ~(times[x].next.wall \in DstEnd..DstEnd + Hour - 1)
        BY <2>2, <3>1, TimesAssumption
      <3>3. ~IsDst(n) => times[x].next.wall = n
        BY <1>1, <1>2
      <3> QED
        BY <1>1, <2>2, <3>2, <3>3
    <2> QED
      BY <2>1, <2>2
  <1> HIDE DEF c, n
  <1>6. n <= now
    BY <1>1, <1>4, <1>5 DEF IsDst
  <1> QED
    BY <1>6 DEF n

-----------------------------------------------------------------------------
(***************************************************************************)
(* The dates of the Times2 through the steps.                              *)
(***************************************************************************)
Dated(x) ==
    /\ IsLocal(times[x].current)
    /\ IsLocal(times[x].next)
    /\ Utc(times[x].current) <= now
    /\ Utc(times[x].current) <= Utc(times[x].next)
    /\ IsPeriodic(x) => Utc(times[x].next) = Utc(times[x].current) + Period[x]
    /\ ~IsPeriodic(x) => times[x].next.wall \in Schedule[x]

LEMMA DatesInit == Init => TimesTypes /\ DatesOK /\ DueOK
  <1> SUFFICES ASSUME Init PROVE TimesTypes /\ DatesOK /\ DueOK
    OBVIOUS
  <1>1. now = 0 /\ MaxTime \in Nat
    BY TimesAssumption DEF Init, InitTimes
  <1>2. \A x \in Times : ~IsStarted(x)
    BY DEF Init, InitTimes, IsStarted
  <1>3. times \in [Times -> [status : {"INITIALIZED", "STARTED"},
                             current : Date, next : Date]]
    <2> DEFINE Fresh == [wall : {NoDate}, dst : BOOLEAN]
               None == {[wall |-> NoDate, dst |-> FALSE]}
    <2>1. Fresh \subseteq Date /\ None \subseteq Date
      BY DEF Date
    <2>2. times \in [Times -> [status : {"INITIALIZED"}, current : None, next : Fresh]]
      BY DEF Init, InitTimes
    <2> HIDE DEF Fresh, None
    <2> QED
      BY <2>1, <2>2
  <1>4. TimesTypes
    BY <1>1, <1>2, <1>3 DEF TimesTypes, Time
  <1>5. DatesOK
    BY <1>2 DEF DatesOK
  <1>6. DueOK
    BY DEF Init, DueOK
  <1> QED
    BY <1>4, <1>5, <1>6

\* Time passes, or a step does not look at the dates.
LEMMA DatesKept ==
    ASSUME TimesTypes, DatesOK, UNCHANGED times, now' \in Time, now <= now',
           rulesKept' => rulesKept
    PROVE  TimesTypes' /\ DatesOK'
  <1>1. now \in Nat /\ now' \in Nat
    BY TimesAssumption DEF TimesTypes, Time
  <1>2. TimesTypes'
    BY DEF TimesTypes, IsStarted, Utc
  <1>3. ASSUME rulesKept', NEW x \in Times, IsStarted(x)'
        PROVE  Dated(x)'
    <2>1. Dated(x)
      BY <1>3 DEF DatesOK, IsStarted, Dated
    <2>2. Utc(times[x].current) \in Nat
      BY <2>1 DEF Dated, IsLocal
    <2> QED
      BY <1>1, <2>1, <2>2 DEF Dated, IsLocal, Utc, Local, Wall, IsDst
  <1>4. DatesOK'
    BY <1>3 DEF DatesOK, Dated
  <1> QED
    BY <1>2, <1>4

\* One Times2 changes.
LEMMA DatesChanged ==
    ASSUME TimesTypes, DatesOK, UNCHANGED now, rulesKept' => rulesKept,
           NEW y \in Times,
           NEW r \in [status : {"INITIALIZED", "STARTED"}, current : Date, next : Date],
           times' = [times EXCEPT ![y] = r],
           IsStarted(y)' => /\ IsPeriodic(y) => r.next.wall \in Nat /\ Utc(r.next) \in Nat
                            /\ rulesKept' => Dated(y)'
    PROVE  TimesTypes' /\ DatesOK'
  <1>1. /\ times \in [Times -> [status : {"INITIALIZED", "STARTED"},
                                current : Date, next : Date]]
        /\ now \in Time
    BY DEF TimesTypes
  <1>2. /\ times' \in [Times -> [status : {"INITIALIZED", "STARTED"},
                                 current : Date, next : Date]]
        /\ times'[y] = r
        /\ \A x \in Times : x # y => times'[x] = times[x]
    BY <1>1
  <1>3. ASSUME NEW x \in Times, IsStarted(x)', IsPeriodic(x)
        PROVE  times'[x].next.wall \in Nat /\ Utc(times'[x].next) \in Nat
    BY <1>2, <1>3 DEF TimesTypes, IsStarted
  <1>4. TimesTypes'
    BY <1>1, <1>2, <1>3 DEF TimesTypes
  <1>5. ASSUME rulesKept', NEW x \in Times, IsStarted(x)'
        PROVE  Dated(x)'
    <2>1. CASE x = y
      BY <1>5, <2>1
    <2>2. CASE x # y
      <3>1. Dated(x)
        BY <1>2, <1>5, <2>2 DEF DatesOK, IsStarted, Dated
      <3> QED
        BY <1>2, <2>2, <3>1 DEF Dated, IsLocal, Utc, Local, Wall, IsDst
    <2> QED
      BY <2>1, <2>2
  <1>6. DatesOK'
    BY <1>5 DEF DatesOK, Dated
  <1> QED
    BY <1>4, <1>6

LEMMA DatesStart ==
    ASSUME TimesTypes, DatesOK, rulesKept \in BOOLEAN,
           NEW x \in Times, StartTimes(x, NoDate)
    PROVE  TimesTypes' /\ DatesOK'
  <1> DEFINE n == NextDate(x, Local(now), times[x].next)
             r == [status |-> "STARTED", current |-> Local(now), next |-> n]
  <1>1. /\ times' = [times EXCEPT ![x] = r]
        /\ UNCHANGED now
    BY DEF StartTimes, Start, StartDate
  <1>2. rulesKept' => rulesKept /\ ~IsLast(x, Local(now)) /\ now < Utc(n)
    <2>1. Keep(~IsLast(x, Local(now)) /\ now < Utc(n))
      BY DEF StartTimes, StartDate
    <2> QED
      BY <2>1, Zenon DEF Keep
  <1>3. now \in Nat /\ times[x].next \in Date
    BY TimesAssumption DEF TimesTypes, Time
  <1>4. Local(now) \in Date /\ IsLocal(Local(now)) /\ Utc(Local(now)) = now
        /\ Local(now).wall \in Nat
    BY <1>3, LocalFacts DEF IsLocal
  <1>5. /\ n \in Date
        /\ IsPeriodic(x) => /\ n.wall \in Nat /\ Utc(n) = now + Period[x]
                            /\ IsLocal(n) /\ Period[x] \in Nat
        /\ ~IsPeriodic(x) /\ ~IsLast(x, Local(now)) =>
                IsLocal(n) /\ Utc(n) > now /\ n.wall \in Schedule[x]
    <2>1. CASE IsPeriodic(x)
      BY <1>3, <1>4, <2>1, PeriodFacts
    <2>2. CASE ~IsPeriodic(x)
      BY <1>3, <1>4, <2>2, CalendarFacts
    <2> QED
      BY <2>1, <2>2
  <1> HIDE DEF n
  <1>6. r \in [status : {"INITIALIZED", "STARTED"}, current : Date, next : Date]
    BY <1>4, <1>5
  <1>7. times'[x] = r
    BY <1>1 DEF TimesTypes
  <1>8. IsPeriodic(x) => n.wall \in Nat /\ Utc(n) \in Nat
    BY <1>3, <1>5
  <1>9. rulesKept' => Dated(x)'
    <2> SUFFICES ASSUME rulesKept' PROVE Dated(x)'
      OBVIOUS
    <2>1. times'[x].current = Local(now) /\ times'[x].next = n
      BY <1>7
    <2>2. IsLocal(n) /\ now <= Utc(n)
      <3>1. IsLocal(n)
        BY <1>2, <1>5
      <3> QED
        BY <1>2, <1>3, <3>1 DEF IsLocal
    <2>3. /\ IsLocal(Local(now)) /\ IsLocal(n)
          /\ Utc(Local(now)) <= now /\ Utc(Local(now)) <= Utc(n)
          /\ IsPeriodic(x) => Utc(n) = Utc(Local(now)) + Period[x]
          /\ ~IsPeriodic(x) => n.wall \in Schedule[x]
      BY <1>2, <1>3, <1>4, <1>5, <2>2
    <2>4. /\ IsLocal(times[x].current)' <=> IsLocal(Local(now))
          /\ IsLocal(times[x].next)' <=> IsLocal(n)
          /\ Utc(times[x].current)' = Utc(Local(now))
          /\ Utc(times[x].next)' = Utc(n)
      BY <2>1 DEF IsLocal, Utc, Local, Wall, IsDst
    <2> QED
      BY <1>1, <2>1, <2>3, <2>4 DEF Dated
  <1> HIDE DEF r
  <1>10. r.next = n
    BY DEF r
  <1> QED
    BY <1>1, <1>2, <1>6, <1>8, <1>9, <1>10, DatesChanged

LEMMA DatesStop ==
    ASSUME TimesTypes, DatesOK, NEW x \in Times, Stop(x), rulesKept' => rulesKept
    PROVE  TimesTypes' /\ DatesOK'
  <1> DEFINE r == [times[x] EXCEPT !.status = "INITIALIZED"]
  <1>1. times[x] \in [status : {"INITIALIZED", "STARTED"}, current : Date, next : Date]
    BY DEF TimesTypes
  <1>2. r \in [status : {"INITIALIZED", "STARTED"}, current : Date, next : Date]
    BY <1>1
  <1>3. times' = [times EXCEPT ![x] = r] /\ UNCHANGED now
    BY DEF Stop
  <1>4. ~IsStarted(x)'
    BY <1>1, <1>3 DEF IsStarted, TimesTypes
  <1> HIDE DEF r
  <1> QED
    BY <1>2, <1>3, <1>4, DatesChanged

LEMMA DatesUpdateFailed ==
    ASSUME TimesTypes, DatesOK, NEW y \in Times, UpdateFails(y), UpdateFailed(y),
           UNCHANGED <<now, rulesKept>>
    PROVE  TimesTypes' /\ DatesOK'
  <1> DEFINE cur == IF IsStarted(y) THEN times[y].next ELSE times[y].current
             r == [times[y] EXCEPT !.current = cur]
  <1>1. times[y] \in [status : {"INITIALIZED", "STARTED"}, current : Date, next : Date]
    BY DEF TimesTypes
  <1>2. cur \in Date
    BY <1>1
  <1>3. times' = [times EXCEPT ![y] = [times[y] EXCEPT !.current = cur]]
    BY <1>1 DEF UpdateFailed, TimesTypes
  <1> HIDE DEF cur
  <1>4. r \in [status : {"INITIALIZED", "STARTED"}, current : Date, next : Date]
    BY <1>1, <1>2
  <1>5. times'[y].status = times[y].status
    BY <1>1, <1>3 DEF TimesTypes
  <1>6. ASSUME IsStarted(y)'
        PROVE  ~IsPeriodic(y) /\ ~rulesKept'
    <2>1. IsStarted(y)
      BY <1>5, <1>6 DEF IsStarted
    <2>2. ~IsPeriodic(y) /\ times[y].next.wall = NoDate
      BY <2>1 DEF UpdateFails, IsStarted, Empty
    <2>3. rulesKept => times[y].next.wall \in Nat
      BY <2>1 DEF DatesOK, IsLocal
    <2> QED
      BY <2>2, <2>3, TimesAssumption
  <1> HIDE DEF r
  <1> QED
    BY <1>3, <1>4, <1>6, DatesChanged DEF r

LEMMA DatesUpdate ==
    ASSUME TimesTypes, DatesOK, NEW y \in Times, ~UpdateFails(y), Update(y),
           UNCHANGED <<now, rulesKept>>,
           rulesKept => IsStarted(y) /\ Utc(times[y].next) <= now
    PROVE  TimesTypes' /\ DatesOK'
  <1> DEFINE d == times[y].next
             n == NextDate(y, d, d)
             r == [status |-> IF IsLast(y, d) THEN "INITIALIZED" ELSE "STARTED",
                   current |-> d, next |-> n]
  <1>1. times' = [times EXCEPT ![y] = r]
    BY DEF Update
  <1>2. d \in Date /\ now \in Nat /\ IsStarted(y)
    BY TimesAssumption DEF TimesTypes, Time, UpdateFails, IsStarted
  <1>3. IsPeriodic(y) => d.wall \in Nat /\ Utc(d) \in Nat
    BY <1>2 DEF TimesTypes
  <1>4. rulesKept => IsLocal(d) /\ Utc(d) \in Nat /\ Utc(d) <= now
    BY <1>2 DEF DatesOK, IsLocal
  <1> HIDE DEF d
  <1>5. /\ n \in Date
        /\ IsPeriodic(y) => /\ n.wall \in Nat /\ Utc(n) = Utc(d) + Period[y]
                            /\ IsLocal(d) => IsLocal(n)
                            /\ Period[y] \in Nat
        /\ ~IsPeriodic(y) /\ ~IsLast(y, d) =>
                IsLocal(n) /\ Utc(n) > Utc(d) /\ n.wall \in Schedule[y]
    <2>1. CASE IsPeriodic(y)
      BY <1>2, <1>3, <2>1, PeriodFacts
    <2>2. CASE ~IsPeriodic(y)
      BY <1>2, <2>2, CalendarFacts
    <2> QED
      BY <2>1, <2>2
  <1> HIDE DEF n
  <1>6. r \in [status : {"INITIALIZED", "STARTED"}, current : Date, next : Date]
    BY <1>2, <1>5
  <1>7. times'[y] = r
    BY <1>1 DEF TimesTypes
  <1>8. IsPeriodic(y) => n.wall \in Nat /\ Utc(n) \in Nat
    BY <1>3, <1>5
  <1>9. ASSUME IsStarted(y)', rulesKept'
        PROVE  Dated(y)'
    <2>1. times'[y].current = d /\ times'[y].next = n
      BY <1>7
    <2>2. ~IsLast(y, d)
      BY <1>7, <1>9 DEF IsStarted
    <2>3. /\ IsLocal(d) /\ IsLocal(n)
          /\ Utc(d) <= now /\ Utc(d) <= Utc(n)
          /\ IsPeriodic(y) => Utc(n) = Utc(d) + Period[y]
          /\ ~IsPeriodic(y) => n.wall \in Schedule[y]
      <3>1. rulesKept
        BY <1>9
      <3>2. CASE IsPeriodic(y)
        BY <1>4, <1>5, <3>1, <3>2
      <3>3. CASE ~IsPeriodic(y)
        <4>1. Utc(n) \in Nat
          BY <1>5, <2>2, <3>3 DEF IsLocal
        <4> QED
          BY <1>4, <1>5, <2>2, <3>1, <3>3, <4>1
      <3> QED
        BY <3>2, <3>3
    <2> QED
      BY <2>1, <2>3 DEF Dated, IsLocal, Utc, Local, Wall, IsDst
  <1> HIDE DEF r
  <1>10. r.next = n
    BY DEF r
  <1> QED
    BY <1>1, <1>6, <1>8, <1>9, <1>10, DatesChanged

LEMMA DatesStep ==
    ASSUME StartDates = {}, ControlInv, TimesTypes, DatesOK, DueOK, [Next]_vars
    PROVE  TimesTypes' /\ DatesOK'
  <1>1. /\ now \in Time /\ now \in Nat /\ now <= now
        /\ rulesKept \in BOOLEAN
    BY TimesAssumption DEF TimesTypes, Time, ControlInv, ControlTypes
  <1>2. CASE Pass
    <2>1. now' \in Time /\ now <= now'
      BY <1>1, <1>2, TimesAssumption DEF Pass, Tick, Time
    <2> QED
      BY <1>2, <2>1, DatesKept DEF Pass
  <1>3. ASSUME UNCHANGED <<now, times>>, rulesKept' => rulesKept
        PROVE  TimesTypes' /\ DatesOK'
    BY <1>1, <1>3, DatesKept
  <1>4. CASE \/ Suspend \/ Resume \/ Cancel
             \/ \E x \in Times : ActiveTimes(x) \/ DeactiveTimes(x)
    BY <1>3, <1>4 DEF Suspend, Resume, Cancel, ActiveTimes, DeactiveTimes
  <1>5. ASSUME NEW x \in Times, NEW date \in StartDates \cup {NoDate},
               StartTimes(x, date)
        PROVE  TimesTypes' /\ DatesOK'
    BY <1>1, <1>5, DatesStart
  <1>6. ASSUME NEW x \in Times, StopTimes(x)
        PROVE  TimesTypes' /\ DatesOK'
    <2>1. Stop(x)
      BY <1>6 DEF StopTimes
    <2>2. rulesKept' => rulesKept
      BY <1>6, Zenon DEF StopTimes, Keep
    <2> QED
      BY <2>1, <2>2, DatesStop
  <1>7. ASSUME NEW l \in Loops, UpdateTimes(l)
        PROVE  TimesTypes' /\ DatesOK'
    <2>1. at \in Times
      BY <1>7 DEF UpdateTimes, ControlInv, ControlTypes, ScanOK
    <2>2. rulesKept => IsStarted(at) /\ Utc(times[at].next) <= now
      BY <1>7 DEF UpdateTimes, DueOK
    <2>3. CASE UpdateFails(at)
      <3>1. UpdateFailed(at) /\ UNCHANGED <<now, rulesKept>>
        BY <1>7, <2>3 DEF UpdateTimes, Die
      <3> QED
        BY <2>1, <2>3, <3>1, DatesUpdateFailed
    <2>4. CASE ~UpdateFails(at)
      <3>1. Update(at) /\ UNCHANGED <<now, rulesKept>>
        BY <1>7, <2>4 DEF UpdateTimes
      <3> QED
        BY <2>1, <2>2, <2>4, <3>1, DatesUpdate
    <2> QED
      BY <2>3, <2>4
  <1>8. ASSUME NEW l \in Loops, HandlerThrows(l)
        PROVE  TimesTypes' /\ DatesOK'
    <2>1. UNCHANGED <<now, times>>
      BY <1>8 DEF HandlerThrows, Die
    <2>2. rulesKept' => rulesKept
      BY <1>8, Zenon DEF HandlerThrows, Keep
    <2> QED
      BY <1>3, <2>1, <2>2
  <1>9. ASSUME NEW l \in Loops,
               \/ Begin(l) \/ ReadStatus(l) \/ EnterScan(l) \/ LeaveScan(l)
               \/ Look(l) \/ HandlerReturns(l)
        PROVE  TimesTypes' /\ DatesOK'
    BY <1>3, <1>9 DEF Begin, ReadStatus, EnterScan, LeaveScan, Look, HandlerReturns
  <1>10. CASE UNCHANGED vars
    BY <1>3, <1>10 DEF vars
  <1> QED
    BY <1>2, <1>4, <1>5, <1>6, <1>7, <1>8, <1>9, <1>10 DEF Next, Client, Loop

\* A due timeout stays due until the scan that found it has updated it.
LEMMA DueStep ==
    ASSUME StartDates = {}, ShortPeriods, ControlInv, TimesTypes, DatesOK, DueOK,
           [Next]_vars
    PROVE  DueOK'
  <1> SUFFICES ASSUME rulesKept', NEW l \in Loops, pc'[l] = "update"
               PROVE  (IsStarted(at) /\ Utc(times[at].next) <= now)'
    BY DEF DueOK
  <1>1. /\ now \in Nat
        /\ timesList \in Seq(Times) /\ Len(timesList) \in Nat
        /\ pc \in [Loops -> {"ended", "check", "scan", "update", "handler",
                             "sleep", "dead"}]
        /\ \A m \in Loops : mutex = m <=> pc[m] \in {"scan", "update", "handler"}
        /\ index \in 1..MaxListed + 1
    BY TimesAssumption DEF ControlInv, ControlTypes, TimesTypes, Time
  <1>2. CASE pc[l] # "update"
    <2>1. Look(l) /\ pc' = [pc EXCEPT ![l] = "update"]
      <3>1. ~UNCHANGED pc
        BY <1>2
      <3>2. PICK m \in Loops : Begin(m) \/ Loop(m) \/ HandlerReturns(m) \/ HandlerThrows(m)
        BY <3>1 DEF Next, vars, Client, Pass, Suspend, Resume, Cancel, StartTimes,
                    StopTimes, ActiveTimes, DeactiveTimes
      <3>3. ~ReadStatus(m)
        <4>1. status \in {"INITIALIZED", "STARTED", "SUSPENDED"}
          BY DEF ControlInv, ControlTypes
        <4>2. ASSUME ReadStatus(m)
              PROVE  \E p \in {"check", "sleep", "ended"} : pc' = [pc EXCEPT ![m] = p]
          BY <4>1, <4>2 DEF ReadStatus, Goto
        <4> QED
          BY <1>1, <1>2, <4>2
      <3>4. ~(\/ Begin(m) \/ EnterScan(m) \/ LeaveScan(m) \/ HandlerReturns(m)
              \/ HandlerThrows(m) \/ UpdateTimes(m))
        BY <1>1, <1>2 DEF Begin, EnterScan, LeaveScan, HandlerReturns,
                          HandlerThrows, UpdateTimes, Die, Goto
      <3>5. Look(m)
        BY <3>2, <3>3, <3>4 DEF Loop
      <3> QED
        BY <1>1, <1>2, <3>1, <3>5 DEF Look, Goto
    <2>2. /\ index <= Len(timesList)
          /\ at' = timesList[index]
          /\ UNCHANGED <<rulesKept, now, times>>
          /\ IsStarted(timesList[index]) /\ IsExpired(timesList[index])
      <3>1. pc' # pc
        BY <1>2
      <3> QED
        BY <2>1, <3>1 DEF Look
    <2>3. timesList[index] \in Times
      BY <1>1, <2>2
    <2> DEFINE x == timesList[index]
    <2>4. /\ IsLocal(times[x].current) /\ IsLocal(times[x].next)
          /\ Utc(times[x].current) <= now
          /\ IsPeriodic(x) => Utc(times[x].next) = Utc(times[x].current) + Period[x]
          /\ ~IsPeriodic(x) => times[x].next.wall \in Schedule[x]
      BY <2>2, <2>3 DEF DatesOK
    <2>5. now \in Time
      BY DEF TimesTypes
    <2> HIDE DEF x
    <2>6. Utc(times[x].next) <= now
      BY <2>2, <2>3, <2>4, <2>5, ExpiredIsDue DEF x
    <2> QED
      BY <2>2, <2>6 DEF x, IsStarted, Utc
  <1>3. CASE pc[l] = "update"
    <2>1. /\ index \in 1..Len(timesList) /\ timesList[index] = at /\ at \in Times
          /\ \A m \in Loops : m # l => ~(pc[m] \in {"scan", "update", "handler"})
      BY <1>1, <1>3 DEF ControlInv, ScanOK
    <2>2. ~UpdateTimes(l)
      BY <1>1, <1>3 DEF UpdateTimes, Die, Goto
    <2>3. /\ ~Look(l) /\ ~LeaveScan(l) /\ ~HandlerReturns(l) /\ ~HandlerThrows(l)
          /\ \A m \in Loops : m # l =>
                ~(Look(m) \/ LeaveScan(m) \/ UpdateTimes(m) \/ HandlerReturns(m) \/ HandlerThrows(m))
      BY <1>3, <2>1 DEF Look, LeaveScan, UpdateTimes, HandlerReturns, HandlerThrows
    <2>4. UNCHANGED at
      BY <2>2, <2>3 DEF Next, vars, scan, Client, Pass, Suspend, Resume, Cancel, StartTimes,
             StopTimes, ActiveTimes, DeactiveTimes, Loop, Begin, ReadStatus, EnterScan
    <2>5. ASSUME rulesKept, UNCHANGED times[at], now' \in Nat, now <= now'
          PROVE  (IsStarted(at) /\ Utc(times[at].next) <= now)'
      <3>1. IsStarted(at) /\ Utc(times[at].next) <= now /\ Utc(times[at].next) \in Nat
        BY <1>3, <2>1, <2>5 DEF DueOK, DatesOK, IsLocal
      <3> QED
        BY <1>1, <2>4, <2>5, <3>1 DEF IsStarted, Utc
    <2>6. CASE Pass
      <3>1. UNCHANGED times[at] /\ rulesKept
        BY <2>4, <2>6 DEF Pass
      <3>2. now' \in Nat /\ now <= now'
        BY <1>1, <2>6 DEF Pass, Tick
      <3> QED
        BY <2>5, <3>1, <3>2
    <2>7. ASSUME NEW x \in Times, NEW date \in StartDates \cup {NoDate},
                 StartTimes(x, date)
          PROVE  (IsStarted(at) /\ Utc(times[at].next) <= now)'
      <3>1. rulesKept
        BY <2>7, Zenon DEF StartTimes, Keep
      <3>2. x # at
        BY <1>3, <2>7, <3>1 DEF StartTimes, Start, DueOK, IsStarted
      <3>3. UNCHANGED times[at] /\ UNCHANGED now
        BY <2>1, <2>4, <2>7, <3>2 DEF StartTimes, Start, TimesTypes
      <3> QED
        BY <1>1, <2>5, <3>1, <3>3
    <2>8. ASSUME NEW x \in Times, StopTimes(x)
          PROVE  (IsStarted(at) /\ Utc(times[at].next) <= now)'
      <3>1. /\ rulesKept
            /\ \/ \A i \in 1..Len(timesList) : timesList[i] # x
               \/ \E m \in Loops : pc[m] = "handler"
        BY <2>8, Zenon DEF StopTimes, Keep
      <3>2. x # at
        BY <1>3, <2>1, <3>1
      <3>3. UNCHANGED times[at] /\ UNCHANGED now
        BY <2>1, <2>4, <2>8, <3>2 DEF StopTimes, Stop, TimesTypes
      <3> QED
        BY <1>1, <2>5, <3>1, <3>3
    <2>9. CASE \/ Suspend \/ Resume \/ Cancel
               \/ \E x \in Times : ActiveTimes(x) \/ DeactiveTimes(x)
               \/ \E m \in Loops : Begin(m) \/ ReadStatus(m) \/ EnterScan(m)
               \/ UNCHANGED vars
      <3>1. UNCHANGED <<rulesKept, now, times>>
        BY <2>9 DEF Suspend, Resume, Cancel, ActiveTimes, DeactiveTimes, Begin,
                    ReadStatus, EnterScan, vars
      <3> QED
        BY <1>1, <2>4, <2>5, <3>1
    <2> QED
      BY <2>2, <2>3, <2>6, <2>7, <2>8, <2>9 DEF Next, Client, Loop
  <1> QED
    BY <1>2, <1>3

(***************************************************************************)
(* The inductive invariant: what the loops know, the dates of the Times2   *)
(* and that the timeout a scan is about to handle is due.                  *)
(***************************************************************************)
THEOREM SchedulerInvariant ==
    ASSUME StartDates = {}, ShortPeriods
    PROVE  Spec => []IInv
  <1>1. Init => IInv
    BY ControlInit, DatesInit DEF IInv
  <1>2. IInv /\ [Next]_vars => IInv'
    BY ControlStep, DatesStep, DueStep DEF IInv
  <1> QED
    BY <1>1, <1>2, PTL DEF Spec

(***************************************************************************)
(* handleTimes calls no handler before its timeout, whatever the local     *)
(* clock does: without pStartDateTime, and with no period longer than      *)
(* daylight saving time.                                                   *)
(***************************************************************************)
THEOREM SchedulerFiresWhenDue ==
    ASSUME StartDates = {}, ShortPeriods
    PROVE  Spec => FiresWhenDue
  <1>1. IInv /\ [Next]_vars =>
            [\A l \in Loops : rulesKept /\ pc[l] = "update" /\ pc'[l] = "handler"
                                => Utc(times[at].next) <= now]_vars
    BY DEF IInv, DueOK
  <1>2. Spec => []IInv
    BY SchedulerInvariant
  <1> QED
    BY <1>1, <1>2, PTL DEF Spec, FiresWhenDue

-----------------------------------------------------------------------------
(***************************************************************************)
(* The first scheduler.  The list of active Times is without repetitions,  *)
(* and its thread stands at the Times in hand until the handler is called. *)
(***************************************************************************)
\* The array of the scheduler.
FirstListOK ==
    /\ scList \in Seq(ScTimes)
    /\ ListedOnce
    /\ scAllocated \in Nat

FirstLoopOK ==
    /\ scStatus \in {"BUILDED", "INITIALIZED", "STARTED", "SUSPENDED"}
    /\ scThread \in {"none", "sleep", "check", "look", "expired", "update", "handler", "ended"}
    /\ scIndex \in 1..Cardinality(ScTimes) + 1
    /\ scAt \in ScTimes \cup {ScNoTimes}
    /\ scDeactived \in BOOLEAN /\ scRules \in BOOLEAN
    /\ scStatus = "BUILDED" => scThread \in {"none", "ended"}
    /\ scThread \in {"expired", "update"} => scIndex \in 1..Len(scList) /\ scList[scIndex] = scAt
    /\ scThread = "handler" => scIndex \in 1..Cardinality(ScTimes)

FirstControl == FirstListOK /\ FirstLoopOK

\* A list without repetitions is not longer than the set of its elements.
LEMMA FirstListLength ==
    ASSUME FirstListOK
    PROVE  /\ Len(scList) \in 0..Cardinality(ScTimes) /\ Cardinality(ScTimes) \in Nat
           /\ \A i \in 1..Len(scList) : scList[i] \in ScTimes
  <1>1. IsFiniteSet(ScTimes) /\ Cardinality(ScTimes) \in Nat
    BY FirstTimesAssumption, FS_CardinalityType
  <1>2. /\ Len(scList) \in Nat /\ scList \in [1..Len(scList) -> ScTimes]
        /\ \A i \in 1..Len(scList) : scList[i] \in ScTimes
    BY DEF FirstListOK
  <1>3. scList \in Injection(1..Len(scList), ScTimes)
    BY <1>2 DEF FirstListOK, ListedOnce, Injection, IsInjective
  <1>4. Cardinality(1..Len(scList)) <= Cardinality(ScTimes)
    BY <1>1, <1>3, FS_Injection
  <1>5. Cardinality(1..Len(scList)) = Len(scList)
    <2>1. 1 \in Int /\ Len(scList) \in Int /\ Len(scList) - 1 + 1 = Len(scList)
      BY <1>2
    <2>2. Cardinality(1..Len(scList)) = IF 1 > Len(scList) THEN 0 ELSE Len(scList) - 1 + 1
      BY <2>1, FS_Interval, Zenon
    <2> QED
      BY <1>2, <2>1, <2>2
  <1> QED
    BY <1>1, <1>2, <1>4, <1>5

\* deactiveTimes takes the Times at an index, and no other, off the list.
LEMMA FirstRemoved ==
    ASSUME FirstListOK, NEW k \in 1..Len(scList), scList' = RemovedAt(k), scAllocated' = scAllocated
    PROVE  /\ FirstListOK'
           /\ \A x \in ScTimes \ {scList[k]} : IsListed(x)' = IsListed(x)
  <1> DEFINE r == Array!RemoveAt(scList, k)
  <1>1. /\ r \in Seq(ScTimes)
        /\ Len(r) = Len(scList) - 1
        /\ \A i \in 1..Len(scList) - 1 : r[i] = IF i < k THEN scList[i] ELSE scList[i + 1]
    <2>1. scList \in Seq(ScTimes)
      BY DEF FirstListOK
    <2>2. r = Vector!RemoveAt(scList, k)
      BY DEF Array!RemoveAt, Vector!RemoveAt
    <2> HIDE DEF r
    <2> QED
      BY <2>1, <2>2, RemoveAtFacts
  <1>2. scList' = r
    BY DEF RemovedAt
  <1> HIDE DEF r
  <1>3. /\ Len(scList) \in Nat /\ k \in 1..Len(scList) /\ scAllocated \in Nat /\ Len(scList) <= scAllocated
        /\ \A i, j \in 1..Len(scList) : scList[i] = scList[j] => i = j
        /\ \A i \in 1..Len(scList) : scList[i] \in ScTimes
    BY FirstListLength DEF FirstListOK, ListedOnce
  <1>4. ASSUME NEW i \in 1..Len(r), NEW j \in 1..Len(r), r[i] = r[j]
        PROVE  i = j
    <2> DEFINE was(n) == IF n < k THEN n ELSE n + 1
    <2>1. \A n \in 1..Len(r) : was(n) \in 1..Len(scList) /\ r[n] = scList[was(n)]
      BY <1>1, <1>3
    <2>2. was(i) = was(j)
      BY <1>3, <1>4, <2>1
    <2> QED
      BY <1>1, <1>3, <2>2
  <1>5. FirstListOK'
    BY <1>1, <1>2, <1>3, <1>4 DEF FirstListOK, ListedOnce
  <1>6. ASSUME NEW x \in ScTimes \ {scList[k]}
        PROVE  IsListed(x)' = IsListed(x)
    <2>1. ASSUME NEW i \in 1..Len(r), r[i] = x
          PROVE  \E n \in 1..Len(scList) : scList[n] = x
      BY <1>1, <1>3, <2>1
    <2>2. ASSUME NEW n \in 1..Len(scList), scList[n] = x
          PROVE  \E i \in 1..Len(r) : r[i] = x
      <3>1. n # k
        BY <2>2
      <3>2. CASE n < k
        <4>1. n \in 1..Len(scList) - 1 /\ r[n] = scList[n]
          BY <1>1, <1>3, <3>2
        <4> QED
          BY <1>1, <2>2, <4>1
      <3>3. CASE n > k
        <4>1. n - 1 \in 1..Len(scList) - 1 /\ ~(n - 1 < k) /\ n - 1 + 1 = n
          BY <1>3, <3>3
        <4>2. r[n - 1] = scList[n]
          BY <1>1, <4>1
        <4> QED
          BY <1>1, <2>2, <4>1, <4>2
      <3> QED
        BY <1>3, <3>1, <3>2, <3>3
    <2> QED
      BY <1>2, <2>1, <2>2 DEF IsListed
  <1> QED
    BY <1>5, <1>6

\* activeTimes adds one that is not there, in an array that is large enough.
LEMMA FirstActivated ==
    ASSUME FirstListOK, NEW x \in ScTimes, ~IsListed(x), scList' = Append(scList, x),
           scAllocated' = IF Len(scList) = scAllocated THEN scAllocated + ScToAlloc ELSE scAllocated
    PROVE  FirstListOK'
  <1>1. /\ Len(scList) \in Nat /\ scAllocated \in Nat /\ Len(scList) <= scAllocated
        /\ \A i, j \in 1..Len(scList) : scList[i] = scList[j] => i = j
        /\ scList \in Seq(ScTimes) /\ ScToAlloc \in Nat /\ ScToAlloc >= 1
    BY FirstSchedulerAssumption DEF FirstListOK, ListedOnce
  <1> DEFINE r == Append(scList, x)
  <1>2. /\ r \in Seq(ScTimes) /\ Len(r) = Len(scList) + 1 /\ r[Len(scList) + 1] = x
        /\ \A i \in 1..Len(scList) : r[i] = scList[i]
    BY <1>1
  <1> HIDE DEF r
  <1>3. \A i \in 1..Len(scList) : scList[i] # x
    BY DEF IsListed
  <1>4. \A i \in 1..Len(r) : i \in 1..Len(scList) \/ i = Len(scList) + 1
    BY <1>1, <1>2
  <1>5. \A i, j \in 1..Len(r) : r[i] = r[j] => i = j
    BY <1>1, <1>2, <1>3, <1>4
  <1>6. scAllocated' \in Nat /\ Len(scList) + 1 <= scAllocated'
    BY <1>1
  <1>7. scList' = r
    BY DEF r
  <1> QED
    BY <1>2, <1>5, <1>6, <1>7 DEF FirstListOK, ListedOnce

LEMMA FirstControlInit == ScInitial => FirstControl
  <1> SUFFICES ASSUME ScInitial PROVE FirstControl
    OBVIOUS
  <1>1. scList = <<>> /\ scAllocated = 0
    BY DEF ScInitial
  <1>2. scList \in Seq(ScTimes) /\ Len(scList) = 0
    BY <1>1
  <1>3. FirstListOK
    BY <1>1, <1>2 DEF FirstListOK, ListedOnce
  <1>4. Cardinality(ScTimes) \in Nat
    BY FirstTimesAssumption, FS_CardinalityType
  <1>5. 1 \in 1..Cardinality(ScTimes) + 1
    BY <1>4
  <1> QED
    BY <1>3, <1>5 DEF ScInitial, FirstControl, FirstLoopOK

\* What the clients and the handlers do leaves the scan where it is.
LEMMA FirstControlClient == FirstControl /\ ScClient => FirstControl'
  <1> SUFFICES ASSUME FirstControl, ScClient PROVE FirstControl'
    OBVIOUS
  <1>0. FirstListOK /\ FirstLoopOK
    BY DEF FirstControl
  <1>s. ASSUME UNCHANGED scTable PROVE FirstListOK'
    BY <1>0, <1>s DEF scTable, FirstListOK, ListedOnce
  <1>1. ASSUME UNCHANGED <<scTable, scLoop, scStatus>>, scRules' \in BOOLEAN
        PROVE  FirstControl'
    <2>1. FirstLoopOK'
      BY <1>0, <1>1 DEF scTable, scLoop, FirstLoopOK
    <2> QED
      BY <1>1, <1>s, <2>1 DEF FirstControl
  <1>2. scRules \in BOOLEAN /\ \A b : Follows(b) => scRules' \in BOOLEAN
    BY <1>0 DEF Follows, FirstLoopOK
  <1>3. CASE ScPass \/ \E x \in ScTimes : \/ ScTimesInit(x) \/ ScTimesFinish(x) \/ ScTimesStarted(x) \/ ScTimesStop(x)
                                         \/ \E date \in ScStartDates \cup {ScNever} : ScTimesStart(x, date)
    <2>1. UNCHANGED <<scTable, scLoop, scStatus>> /\ scRules' \in BOOLEAN
      BY <1>2, <1>3 DEF ScPass, ScTimesInit, ScTimesFinish, ScTimesStarted, ScTimesStop, ScTimesStart, ScOthers
    <2> QED
      BY <1>1, <2>1
  <1>4. CASE ScInit \/ \E d \in BOOLEAN : ScFinish(d)
    <2>1. /\ scList' = <<>> /\ scAllocated' \in Nat
          /\ scThread \in {"none", "ended"} /\ scStatus' \in {"BUILDED", "INITIALIZED"}
          /\ UNCHANGED <<scLoop, scRules>>
      BY <1>0, <1>4, FirstSchedulerAssumption DEF ScInit, ScFinish, FirstLoopOK
    <2>2. scList' \in Seq(ScTimes) /\ Len(scList') = 0
      BY <2>1
    <2>3. FirstListOK'
      BY <2>1, <2>2 DEF FirstListOK, ListedOnce
    <2>4. FirstLoopOK'
      BY <1>0, <2>1 DEF FirstLoopOK, scLoop
    <2> QED
      BY <2>3, <2>4 DEF FirstControl
  <1>5. CASE ScStart \/ ScSuspend \/ ScResume \/ ScCancel \/ ScJoin
    <2>1. FirstLoopOK'
      BY <1>0, <1>5 DEF ScStart, ScSuspend, ScResume, ScCancel, ScSetStatus, ScJoin, MutexFree, scTable, scLoop, FirstLoopOK
    <2>2. UNCHANGED scTable
      BY <1>5 DEF ScStart, ScSuspend, ScResume, ScCancel, ScSetStatus, ScJoin
    <2> QED
      BY <1>s, <2>1, <2>2 DEF FirstControl
  <1>6. ASSUME NEW x \in ScTimes, ScActive(x) \/ ScDeactive(x)
        PROVE  FirstControl'
    <2>1. FirstListOK'
      <3>1. CASE ScActive(x)
        BY <1>0, <3>1, FirstActivated DEF ScActive
      <3>2. CASE ScDeactive(x)
        BY <1>0, <3>2, FirstRemoved DEF ScDeactive
      <3> QED
        BY <1>6, <3>1, <3>2
    <2>2. MutexFree /\ UNCHANGED <<scStatus, scLoop, scRules>>
      BY <1>6 DEF ScActive, ScDeactive
    <2>3. FirstLoopOK'
      BY <1>0, <2>2 DEF MutexFree, scLoop, FirstLoopOK
    <2> QED
      BY <2>1, <2>3 DEF FirstControl
  <1> QED
    BY <1>3, <1>4, <1>5, <1>6 DEF ScClient

\* The thread holds the mutex from its look at a Times to the update, and a
\* handler is called with an index that is not too large.
LEMMA FirstControlRun == FirstControl /\ (ScRun \/ ScHandled \/ ScHandlerFails) => FirstControl'
  <1> SUFFICES ASSUME FirstControl, ScRun \/ ScHandled \/ ScHandlerFails PROVE FirstControl'
    OBVIOUS
  <1> DEFINE c == Cardinality(ScTimes)
             n == Len(scList)
  <1>0. FirstListOK /\ FirstLoopOK
    BY DEF FirstControl
  <1>1. /\ c \in Nat /\ n \in Nat /\ n <= c /\ \A i \in 1..n : scList[i] \in ScTimes
        /\ scIndex \in 1..c + 1
        /\ 1 \in 1..c + 1
    BY <1>0, FirstListLength DEF FirstLoopOK
  <1> HIDE DEF c, n
  <1>s. ASSUME UNCHANGED scTable PROVE FirstListOK'
    BY <1>0, <1>s DEF scTable, FirstListOK, ListedOnce
  <1>r. ASSUME NEW k \in 1..n, scList' = RemovedAt(k), UNCHANGED scAllocated PROVE FirstListOK'
    BY <1>0, <1>r, FirstRemoved DEF n
  <1>2. CASE ScReads \/ ScEnters
    <2>1. FirstLoopOK' /\ UNCHANGED scTable
      BY <1>0, <1>2 DEF ScReads, ScEnters, Runs, scTable, FirstLoopOK
    <2> QED
      BY <1>s, <2>1 DEF FirstControl
  <1>3. CASE ScLeaves \/ ScFails
    <2>1. /\ scThread' \in {"sleep", "ended"} /\ scIndex' = 1 /\ scAt' = ScNoTimes /\ scDeactived' = FALSE
          /\ UNCHANGED <<scStatus, scTable, scRules>>
      BY <1>3 DEF ScLeaves, ScFails, ScanOver, Runs
    <2>2. scThread' = "sleep" => scStatus # "BUILDED"
      BY <1>0, <1>3 DEF ScLeaves, ScFails, Runs, FirstLoopOK
    <2>3. FirstLoopOK'
      BY <1>0, <1>1, <2>1, <2>2 DEF FirstLoopOK, c
    <2> QED
      BY <1>s, <2>1, <2>3 DEF FirstControl
  <1>4. CASE ScLooks
    <2>1. scThread = "look" /\ scIndex <= n /\ scIndex \in 1..n /\ scIndex + 1 \in 1..c + 1 /\ scStatus # "BUILDED"
          /\ scList[scIndex] \in ScTimes
      BY <1>0, <1>1, <1>4 DEF ScLooks, FirstLoopOK, n
    <2>2. CASE ScFails
      BY <1>3, <2>1, <2>2
    <2>3. CASE scIndex' = scIndex + 1 /\ UNCHANGED <<scObjects, scStatus, scTable, scRules, scThread, scAt, scDeactived>>
      <3>1. FirstLoopOK'
        BY <1>0, <2>1, <2>3 DEF FirstLoopOK, c
      <3> QED
        BY <1>s, <2>3, <3>1 DEF FirstControl
    <2>4. CASE /\ Runs("expired") /\ scAt' = scList[scIndex] /\ scDeactived' = FALSE
               /\ UNCHANGED <<scObjects, scStatus, scTable, scRules, scIndex>>
      <3>1. FirstLoopOK'
        BY <1>0, <2>1, <2>4 DEF FirstLoopOK, c, n, Runs, scTable
      <3> QED
        BY <1>s, <2>4, <3>1 DEF FirstControl
    <2> QED
      BY <1>4, <2>2, <2>3, <2>4 DEF ScLooks
  <1>5. CASE ScExpired
    <2>1. scThread = "expired" /\ scIndex \in 1..n /\ scIndex + 1 \in 1..c + 1 /\ scStatus # "BUILDED"
          /\ scList[scIndex] = scAt
      BY <1>0, <1>1, <1>5 DEF ScExpired, FirstLoopOK, n
    <2>2. CASE ScFails
      BY <1>3, <2>1, <2>2
    <2>3. CASE Runs("update") /\ UNCHANGED <<scStatus, scTable, scRules, scDeactived, scIndex, scAt>>
      <3>1. FirstLoopOK'
        BY <1>0, <2>1, <2>3 DEF FirstLoopOK, n, Runs, scTable
      <3> QED
        BY <1>s, <2>3, <3>1 DEF FirstControl
    <2>4. CASE /\ Runs("look") /\ scIndex' = scIndex + 1 /\ scAt' = ScNoTimes
               /\ UNCHANGED <<scStatus, scTable, scRules, scDeactived>>
      <3>1. FirstLoopOK'
        BY <1>0, <2>1, <2>4 DEF FirstLoopOK, c, Runs, scTable
      <3> QED
        BY <1>s, <2>4, <3>1 DEF FirstControl
    <2> QED
      BY <1>5, <2>2, <2>3, <2>4 DEF ScExpired
  <1>6. CASE ScUpdates
    <2>1. scThread = "update" /\ scIndex \in 1..n /\ scIndex \in 1..c /\ scStatus # "BUILDED" /\ scAt \in ScTimes
      BY <1>0, <1>1, <1>6 DEF ScUpdates, FirstLoopOK, n
    <2>2. CASE ScFails
      BY <1>3, <2>1, <2>2
    <2>3. CASE scTimes[scAt].status = "STARTED"
      <3> DEFINE last == NoneLeft(scAt, scTimes[scAt].next)
      <3>1. /\ Runs("handler") /\ scDeactived' = last
            /\ scList' = (IF last THEN RemovedAt(scIndex) ELSE scList)
            /\ UNCHANGED <<scStatus, scAllocated, scRules, scIndex, scAt>>
        BY <1>6, <2>3 DEF ScUpdates
      <3>2. last \in BOOLEAN
        BY DEF NoneLeft
      <3> HIDE DEF last
      <3>3. FirstLoopOK'
        BY <1>0, <2>1, <3>1, <3>2 DEF FirstLoopOK, c, Runs
      <3>4. FirstListOK'
        BY <1>r, <1>s, <2>1, <3>1 DEF scTable
      <3> QED
        BY <3>3, <3>4 DEF FirstControl
    <2> QED
      BY <1>6, <2>2, <2>3 DEF ScUpdates
  <1>7. CASE ScHandled
    <2>3. scIndex \in 1..c /\ scIndex + 1 \in 1..c + 1 /\ scStatus # "BUILDED"
      BY <1>0, <1>1, <1>7 DEF ScHandled, FirstLoopOK, c
    <2>1. FirstLoopOK'
      BY <1>0, <1>1, <1>7, <2>3 DEF ScHandled, Runs, FirstLoopOK, c
    <2>2. UNCHANGED scTable
      BY <1>7 DEF ScHandled
    <2> QED
      BY <1>s, <2>1, <2>2 DEF FirstControl
  <1>8. CASE ScHandlerFails
    <2>1. scThread = "handler" /\ scStatus # "BUILDED" /\ scIndex \in 1..c + 1
          /\ scRules' \in BOOLEAN /\ UNCHANGED <<scStatus, scAllocated>>
      BY <1>0, <1>1, <1>8 DEF ScHandlerFails, FirstLoopOK, Follows
    <2>2. CASE Runs("ended") /\ ScanOver /\ UNCHANGED scList
      <3>1. FirstLoopOK'
        BY <1>0, <1>1, <2>1, <2>2 DEF FirstLoopOK, c, Runs, ScanOver
      <3> QED
        BY <1>s, <2>1, <2>2, <3>1 DEF FirstControl, scTable
    <2>3. CASE /\ scDeactived \/ scIndex <= Len(scList)
               /\ Runs("look") /\ scAt' = ScNoTimes /\ scDeactived' = FALSE /\ UNCHANGED scIndex
               /\ scList' = IF scDeactived THEN scList ELSE RemovedAt(scIndex)
      <3>1. FirstLoopOK'
        BY <1>0, <2>1, <2>3 DEF FirstLoopOK, c, Runs
      <3>2. ~scDeactived => scIndex \in 1..n
        BY <1>1, <2>1, <2>3 DEF n
      <3>3. FirstListOK'
        BY <1>r, <1>s, <2>1, <2>3, <3>2 DEF scTable
      <3> QED
        BY <3>1, <3>3 DEF FirstControl
    <2> QED
      BY <1>8, <2>2, <2>3 DEF ScHandlerFails
  <1> QED
    BY <1>2, <1>3, <1>4, <1>5, <1>6, <1>7, <1>8 DEF ScRun

LEMMA FirstControlStep == FirstControl /\ [ScNext]_scVars => FirstControl'
  <1>1. FirstControl /\ UNCHANGED scVars => FirstControl'
    BY DEF FirstControl, FirstListOK, FirstLoopOK, ListedOnce, scVars, scTable, scLoop
  <1> QED
    BY <1>1, FirstControlClient, FirstControlRun DEF ScNext

\* From a timeout to the end of its handler, no other Times leaves the list.
LEMMA FirstDeactivates ==
    ASSUME FirstControl, ScNext, scRules', scThread \in {"update", "handler"}, scThread' # scThread
    PROVE  \A x \in ScTimes \ {scAt} : IsListed(x)' = IsListed(x)
  <1>0. FirstListOK /\ FirstLoopOK
    BY DEF FirstControl
  <1>1. ASSUME UNCHANGED scList PROVE \A x \in ScTimes \ {scAt} : IsListed(x)' = IsListed(x)
    BY <1>1 DEF IsListed
  <1>2. ASSUME NEW k \in 1..Len(scList), scList[k] = scAt, scList' = RemovedAt(k), UNCHANGED scAllocated
        PROVE  \A x \in ScTimes \ {scAt} : IsListed(x)' = IsListed(x)
    BY <1>0, <1>2, FirstRemoved
  <1>3. ~ScClient
    BY DEF ScClient, ScPass, ScTimesInit, ScTimesFinish, ScTimesStarted, ScTimesStop, ScTimesStart, ScOthers, ScInit,
           ScFinish, ScStart, ScSuspend, ScResume, ScCancel, ScSetStatus, ScJoin, ScActive, ScDeactive, scLoop
  <1>4. ~ScReads /\ ~ScEnters /\ ~ScLeaves /\ ~ScLooks /\ ~ScExpired
    BY DEF ScReads, ScEnters, ScLeaves, ScLooks, ScExpired
  <1>5. CASE ScUpdates
    <2>1. scIndex \in 1..Len(scList) /\ scList[scIndex] = scAt
      BY <1>0, <1>5 DEF ScUpdates, FirstLoopOK
    <2>2. UNCHANGED scList \/ (scList' = RemovedAt(scIndex) /\ UNCHANGED scAllocated)
      BY <1>5 DEF ScUpdates, ScFails, scTable
    <2> QED
      BY <1>1, <1>2, <2>1, <2>2
  <1>6. CASE ScHandled
    BY <1>1, <1>6 DEF ScHandled, scTable
  <1>7. CASE ScHandlerFails
    <2>1. CASE UNCHANGED scList
      BY <1>1, <2>1
    <2>2. CASE ~scDeactived /\ scList' = RemovedAt(scIndex) /\ UNCHANGED scAllocated
      <3>1. scIndex <= Len(scList) /\ scList[scIndex] = scAt
        BY <1>7, <2>2 DEF ScHandlerFails, Follows
      <3>2. scIndex \in 1..Len(scList)
        <4>1. Cardinality(ScTimes) \in Nat /\ Len(scList) \in Nat
          BY <1>0, FirstListLength DEF FirstListOK
        <4>2. scIndex \in 1..Cardinality(ScTimes) + 1
          BY <1>0 DEF FirstLoopOK
        <4> QED
          BY <3>1, <4>1, <4>2
      <3> QED
        BY <1>2, <2>2, <3>1, <3>2
    <2> QED
      BY <1>7, <2>1, <2>2 DEF ScHandlerFails
  <1> QED
    BY <1>3, <1>4, <1>5, <1>6, <1>7 DEF ScNext, ScRun

-----------------------------------------------------------------------------
(***************************************************************************)
(* The dates of a Times: the next one is a reading of the local clock, and *)
(* unless the clients break a rule, the current one is not after the end   *)
(* of daylight saving time while the clock is before it.                   *)
(***************************************************************************)
FtDate == [wall : Int, dst : BOOLEAN]
FtReading(date) == UtcOf(date) \in Int /\ date = LocalDate(UtcOf(date))

\* The Times that are started, or will be by the last line of start.
FtCounting(x) == scTimes[x].status = "STARTED" \/ x \in scStarting

FirstTimesOK ==
    /\ scNow \in 0..ScMaxTime
    /\ scStarting \subseteq ScTimes
    /\ scTimes \in [ScTimes -> [status : {"BUILDED", "INITIALIZED", "STARTED"},
                                current : FtDate \cup {NoDateYet}, next : FtDate \cup {NoDateYet}]]
    /\ \A x \in scStarting : scTimes[x].status = "INITIALIZED"
    /\ \A x \in ScTimes : FtCounting(x) =>
          /\ FtReading(scTimes[x].next)
          /\ scRules => scTimes[x].current.dst \/ scNow >= ScDstEnd

\* The timeout that is about to be handled has come.
FirstDueOK ==
    scRules /\ scThread = "update" =>
        scTimes[scAt].status = "STARTED" /\ UtcOf(scTimes[scAt].next) <= scNow

FirstInv == FirstControl /\ FirstTimesOK /\ FirstDueOK

LEMMA FtReadingFacts ==
    ASSUME NEW u \in Int
    PROVE  /\ LocalDate(u) \in FtDate /\ UtcOf(LocalDate(u)) = u /\ FtReading(LocalDate(u))
           /\ LocalDate(u).dst = (u < ScDstEnd)
           /\ LocalDate(u).wall = u + IF u < ScDstEnd THEN ScHour ELSE 0
  <1>1. ScHour \in Int /\ ScDstEnd \in Int
    BY FirstTimesAssumption
  <1>2. /\ LocalDate(u).dst = (u < ScDstEnd)
        /\ LocalDate(u).wall = u + IF u < ScDstEnd THEN ScHour ELSE 0
    BY DEF LocalDate
  <1>3. UtcOf(LocalDate(u)) = u
    <2>1. CASE u < ScDstEnd
      <3>1. LocalDate(u).wall = u + ScHour /\ LocalDate(u).dst
        BY <1>2, <2>1
      <3>2. UtcOf(LocalDate(u)) = LocalDate(u).wall - ScHour
        BY <3>1 DEF UtcOf
      <3> QED
        BY <1>1, <3>1, <3>2
    <2>2. CASE ~(u < ScDstEnd)
      <3>1. LocalDate(u).wall = u + 0 /\ ~LocalDate(u).dst
        BY <1>2, <2>2
      <3>2. UtcOf(LocalDate(u)) = LocalDate(u).wall - 0
        BY <3>1 DEF UtcOf
      <3> QED
        BY <1>1, <3>1, <3>2
    <2> QED
      BY <2>1, <2>2
  <1>4. LocalDate(u) \in FtDate
    BY <1>1 DEF LocalDate, FtDate
  <1> QED
    BY <1>2, <1>3, <1>4 DEF FtReading

LEMMA FtNextFacts ==
    ASSUME NEW x \in ScTimes, NEW date, UtcOf(date) \in Int, ~NoneLeft(x, date)
    PROVE  DateAfter(x, date) \in FtDate /\ FtReading(DateAfter(x, date))
  <1>1. CASE IsPeriodicTimes(x)
    <2>1. DateAfter(x, date) = LocalDate(UtcOf(date) + ScPeriod[x])
      BY <1>1 DEF DateAfter
    <2>2. UtcOf(date) + ScPeriod[x] \in Int
      BY <1>1, FirstTimesAssumption DEF IsPeriodicTimes
    <2> QED
      BY <2>1, <2>2, FtReadingFacts
  <1>2. CASE ~IsPeriodicTimes(x)
    <2> DEFINE L == LaterDates(x, date)
               u == CHOOSE u \in L : \A v \in L : u <= v
    <2>1. L # {} /\ DateAfter(x, date) = LocalDate(u)
      BY <1>2 DEF DateAfter, NoneLeft
    <2>2. L \subseteq Nat
      BY FirstTimesAssumption DEF LaterDates
    <2> HIDE DEF L
    <2>3. u \in L
      BY <2>1, <2>2, LeastInstant
    <2> HIDE DEF u
    <2>4. u \in Int
      BY <2>2, <2>3
    <2> QED
      BY <2>1, <2>4, FtReadingFacts
  <1> QED
    BY <1>1, <1>2

\* isExpiredTime compares local dates and is right nevertheless.
LEMMA FtExpiredIsDue ==
    ASSUME FirstTimesOK, NEW x \in ScTimes, FtCounting(x), scRules, HasExpired(x)
    PROVE  UtcOf(scTimes[x].next) <= scNow
  <1> DEFINE v == UtcOf(scTimes[x].next)
             here == LocalDate(scNow)
  <1>1. scNow \in Int /\ ScDstEnd \in Int /\ ScHour \in Nat
    BY FirstTimesAssumption DEF FirstTimesOK
  <1>2. v \in Int /\ scTimes[x].next = LocalDate(v)
    BY DEF FirstTimesOK, FtReading
  <1>3. /\ here.dst = (scNow < ScDstEnd)
        /\ here.wall = scNow + IF scNow < ScDstEnd THEN ScHour ELSE 0
    BY <1>1, FtReadingFacts
  <1>4. /\ scTimes[x].next.dst = (v < ScDstEnd)
        /\ scTimes[x].next.wall = v + IF v < ScDstEnd THEN ScHour ELSE 0
    BY <1>2, FtReadingFacts
  <1>5. scTimes[x].current.dst \/ scNow >= ScDstEnd
    BY DEF FirstTimesOK
  <1>6. IF scTimes[x].current.dst /\ here.dst # scTimes[x].next.dst THEN scTimes[x].next.dst
        ELSE scTimes[x].next.wall <= here.wall
    BY DEF HasExpired
  <1> HIDE DEF v, here
  <1>7. CASE v < ScDstEnd /\ scNow < ScDstEnd
    <2>1. scTimes[x].next.wall <= here.wall
      BY <1>3, <1>4, <1>6, <1>7
    <2> QED
      BY <1>1, <1>2, <1>3, <1>4, <1>7, <2>1 DEF v
  <1>8. CASE ~(v < ScDstEnd) /\ ~(scNow < ScDstEnd)
    <2>1. scTimes[x].next.wall <= here.wall
      BY <1>3, <1>4, <1>6, <1>8
    <2> QED
      BY <1>1, <1>2, <1>3, <1>4, <1>8, <2>1 DEF v
  <1>9. CASE v < ScDstEnd /\ ~(scNow < ScDstEnd)
    BY <1>1, <1>2, <1>9 DEF v
  <1>10. CASE ~(v < ScDstEnd) /\ scNow < ScDstEnd
    <2>1. scTimes[x].current.dst
      BY <1>1, <1>5, <1>10
    <2> QED
      BY <1>3, <1>4, <1>6, <1>10, <2>1
  <1> QED
    BY <1>7, <1>8, <1>9, <1>10

LEMMA FirstTimesInit == ScInitial => FirstTimesOK /\ FirstDueOK
  <1> SUFFICES ASSUME ScInitial PROVE FirstTimesOK /\ FirstDueOK
    OBVIOUS
  <1>1. 0 \in 0..ScMaxTime
    BY FirstTimesAssumption
  <1>2. \A x \in ScTimes : ~FtCounting(x)
    BY DEF ScInitial, TimesInitial, FtCounting
  <1>3. FirstTimesOK
    BY <1>1, <1>2 DEF ScInitial, TimesInitial, FirstTimesOK
  <1> QED
    BY <1>3 DEF ScInitial, FirstDueOK

\* A step that gives one Times a new value, which is right if it counts.
LEMMA FirstTimesChanged ==
    ASSUME FirstTimesOK, NEW x \in ScTimes,
           NEW t \in [status : {"BUILDED", "INITIALIZED", "STARTED"},
                      current : FtDate \cup {NoDateYet}, next : FtDate \cup {NoDateYet}],
           scTimes' = [scTimes EXCEPT ![x] = t], UNCHANGED scNow,
           scRules' => scRules,
           scStarting' \subseteq scStarting \cup {x},
           x \in scStarting' => t.status = "INITIALIZED",
           t.status = "STARTED" \/ x \in scStarting' =>
                /\ FtReading(t.next)
                /\ scRules' => t.current.dst \/ scNow >= ScDstEnd
    PROVE  FirstTimesOK'
  <1>1. scTimes'[x] = t /\ \A y \in ScTimes \ {x} : scTimes'[y] = scTimes[y]
    BY DEF FirstTimesOK
  <1>2. scTimes' \in [ScTimes -> [status : {"BUILDED", "INITIALIZED", "STARTED"},
                                  current : FtDate \cup {NoDateYet}, next : FtDate \cup {NoDateYet}]]
    BY DEF FirstTimesOK
  <1>3. scStarting' \subseteq ScTimes /\ \A y \in scStarting' : scTimes'[y].status = "INITIALIZED"
    BY <1>1 DEF FirstTimesOK
  <1>4. ASSUME NEW y \in ScTimes, scTimes'[y].status = "STARTED" \/ y \in scStarting'
        PROVE  /\ UtcOf(scTimes'[y].next) \in Int /\ scTimes'[y].next = LocalDate(UtcOf(scTimes'[y].next))
               /\ scRules' => scTimes'[y].current.dst \/ scNow' >= ScDstEnd
    BY <1>1, <1>4 DEF FirstTimesOK, FtCounting, FtReading
  <1> QED
    BY <1>2, <1>3, <1>4 DEF FirstTimesOK, FtCounting, FtReading

\* What the methods of Times, called by anybody, do to the dates.
LEMMA FirstTimesMethods ==
    ASSUME FirstTimesOK, NEW x \in ScTimes,
           \/ ScTimesInit(x) \/ ScTimesFinish(x) \/ ScTimesStarted(x) \/ ScTimesStop(x)
           \/ \E date \in ScStartDates \cup {ScNever} : ScTimesStart(x, date)
    PROVE  FirstTimesOK'
  <1> DEFINE T == [status : {"BUILDED", "INITIALIZED", "STARTED"},
                   current : FtDate \cup {NoDateYet}, next : FtDate \cup {NoDateYet}]
  <1>0. /\ scTimes \in [ScTimes -> T] /\ scTimes[x] \in T
        /\ scStarting \subseteq ScTimes
        /\ x \in scStarting => scTimes[x].status = "INITIALIZED"
        /\ FtCounting(x) => /\ FtReading(scTimes[x].next)
                            /\ scRules => scTimes[x].current.dst \/ scNow >= ScDstEnd
    BY DEF FirstTimesOK
  <1>1. UNCHANGED scNow /\ (scRules' => scRules)
    <2>1. UNCHANGED scNow
      BY DEF ScTimesInit, ScTimesFinish, ScTimesStarted, ScTimesStop, ScTimesStart, ScOthers
    <2>2. CASE ScTimesInit(x) \/ ScTimesStarted(x)
      BY <2>2, <2>1 DEF ScTimesInit, ScTimesStarted
    <2>3. CASE ScTimesFinish(x) \/ ScTimesStop(x)
      BY <2>3, <2>1 DEF ScTimesFinish, ScTimesStop, Follows
    <2>4. ASSUME NEW date, ScTimesStart(x, date) PROVE scRules' => scRules
      BY <2>4 DEF ScTimesStart, Follows
    <2> QED
      BY <2>1, <2>2, <2>3, <2>4
  <1>2. ASSUME ScTimesInit(x) \/ ScTimesFinish(x)
        PROVE  FirstTimesOK'
    <2>1. PICK s \in {"BUILDED", "INITIALIZED"} :
            scTimes' = [scTimes EXCEPT ![x] = [status |-> s, current |-> NoDateYet, next |-> NoDateYet]]
      BY <1>2 DEF ScTimesInit, ScTimesFinish, TimesInit, TimesFinish
    <2>2. UNCHANGED scStarting /\ x \notin scStarting
      BY <1>0, <1>2 DEF ScTimesInit, ScTimesFinish, TimesInit, TimesFinish
    <2> DEFINE t == [status |-> s, current |-> NoDateYet, next |-> NoDateYet]
    <2>3. t \in T /\ t.status # "STARTED"
      OBVIOUS
    <2> HIDE DEF t
    <2>4. scTimes' = [scTimes EXCEPT ![x] = t]
      BY <2>1 DEF t
    <2> QED
      BY <1>0, <1>1, <2>2, <2>3, <2>4, FirstTimesChanged
  <1>3. ASSUME ScTimesStarted(x)
        PROVE  FirstTimesOK'
    <2> DEFINE t == [scTimes[x] EXCEPT !.status = "STARTED"]
    <2>1. scTimes' = [scTimes EXCEPT ![x] = t] /\ x \in scStarting /\ scStarting' = scStarting \ {x}
      BY <1>0, <1>3 DEF ScTimesStarted, TimesStarted
    <2>2. t \in T /\ t.next = scTimes[x].next /\ t.current = scTimes[x].current
      BY <1>0
    <2>3. FtCounting(x)
      BY <2>1 DEF FtCounting
    <2> HIDE DEF t
    <2>4. x \notin scStarting' /\ scStarting' \subseteq scStarting \cup {x}
      BY <2>1
    <2>5. /\ FtReading(t.next)
          /\ scRules' => t.current.dst \/ scNow >= ScDstEnd
      BY <1>0, <1>1, <2>2, <2>3
    <2> QED
      BY <1>1, <2>1, <2>2, <2>4, <2>5, FirstTimesChanged
  <1>4. ASSUME ScTimesStop(x)
        PROVE  FirstTimesOK'
    <2> DEFINE t == [scTimes[x] EXCEPT !.status = "INITIALIZED"]
    <2>1. scTimes' = [scTimes EXCEPT ![x] = t] /\ x \notin scStarting /\ scStarting' = scStarting
      BY <1>0, <1>4 DEF ScTimesStop, TimesStop
    <2>2. t \in T /\ t.status = "INITIALIZED"
      BY <1>0
    <2> HIDE DEF t
    <2> QED
      BY <1>1, <2>1, <2>2, FirstTimesChanged
  <1>5. ASSUME NEW date \in ScStartDates \cup {ScNever}, ScTimesStart(x, date)
        PROVE  FirstTimesOK'
    <2> DEFINE first == FirstDate(date)
    <2>1. first \in FtDate /\ UtcOf(first) \in Int /\ (first.dst \/ scNow >= ScDstEnd)
      <3>1. scNow \in Int /\ ScDstEnd \in Int /\ ScHour \in Int
        BY FirstTimesAssumption DEF FirstTimesOK
      <3>2. CASE date = ScNever
        <4>1. first = LocalDate(scNow)
          BY <3>2 DEF FirstDate
        <4>2. /\ LocalDate(scNow) \in FtDate /\ UtcOf(LocalDate(scNow)) = scNow
              /\ LocalDate(scNow).dst = (scNow < ScDstEnd)
          BY <3>1, FtReadingFacts
        <4>3. scNow < ScDstEnd \/ scNow >= ScDstEnd
          BY <3>1
        <4> HIDE DEF first
        <4> QED
          BY <3>1, <4>1, <4>2, <4>3
      <3>3. CASE date # ScNever
        <4>1. first = [wall |-> date, dst |-> TRUE] /\ date \in Int
          BY <3>3, FirstTimesAssumption DEF FirstDate
        <4> QED
          BY <3>1, <4>1 DEF FtDate, UtcOf
      <3> QED
        BY <3>2, <3>3
    <2>2. scTimes[x].status = "INITIALIZED" /\ x \notin scStarting
      BY <1>5 DEF ScTimesStart, TimesStart
    <2> HIDE DEF first
    <2>3. CASE NoneLeft(x, first)
      <3> DEFINE t == [scTimes[x] EXCEPT !.current = first]
      <3>1. scTimes' = [scTimes EXCEPT ![x] = t] /\ UNCHANGED scStarting
        BY <1>0, <1>5, <2>3 DEF ScTimesStart, TimesStart, first
      <3>2. t \in T /\ t.status = "INITIALIZED"
        BY <1>0, <2>1, <2>2
      <3> HIDE DEF t
      <3> QED
        BY <1>1, <2>2, <3>1, <3>2, FirstTimesChanged
    <2>4. CASE ~NoneLeft(x, first)
      <3> DEFINE d == DateAfter(x, first)
                 t == [scTimes[x] EXCEPT !.current = first, !.next = d]
      <3>1. scTimes' = [scTimes EXCEPT ![x] = t] /\ scStarting' = scStarting \cup {x}
        <4>1. scTimes' = [scTimes EXCEPT ![x].current = first, ![x].next = d]
          BY <1>5, <2>4 DEF ScTimesStart, TimesStart, first
        <4>2. scStarting' = scStarting \cup {x}
          BY <1>5, <2>4 DEF ScTimesStart, TimesStart, first
        <4> HIDE DEF d
        <4> QED
          BY <1>0, <4>1, <4>2
      <3>2. d \in FtDate /\ FtReading(d)
        BY <2>1, <2>4, FtNextFacts
      <3> HIDE DEF d
      <3>3. t \in T /\ t.status = "INITIALIZED" /\ t.current = first /\ t.next = d
        BY <1>0, <2>1, <2>2, <3>2
      <3> HIDE DEF t
      <3> QED
        BY <1>1, <2>1, <3>1, <3>2, <3>3, FirstTimesChanged
    <2> QED
      BY <2>3, <2>4
  <1> QED
    BY <1>2, <1>3, <1>4, <1>5

\* updateNextExpirationDateTime of a Times that has expired.
LEMMA FirstTimesUpdated ==
    ASSUME FirstTimesOK, FirstDueOK, scAt \in ScTimes, scThread = "update", scTimes[scAt].status = "STARTED",
           TimesUpdate(scAt), UNCHANGED <<scNow, scRules>>
    PROVE  FirstTimesOK'
  <1> DEFINE T == [status : {"BUILDED", "INITIALIZED", "STARTED"},
                   current : FtDate \cup {NoDateYet}, next : FtDate \cup {NoDateYet}]
             x == scAt
             date == scTimes[x].next
  <1>1. /\ x \in ScTimes /\ scTimes[x] \in T /\ x \notin scStarting /\ FtReading(date)
        /\ date \in FtDate \cup {NoDateYet}
        /\ scNow \in Int /\ ScDstEnd \in Int
    BY FirstTimesAssumption DEF FirstTimesOK, FtCounting
  <1>2. UtcOf(date) \in Int /\ date = LocalDate(UtcOf(date))
    BY <1>1 DEF FtReading
  <1>3. scRules => date.dst \/ scNow >= ScDstEnd
    <2>1. date.dst = (UtcOf(date) < ScDstEnd)
      BY <1>2, FtReadingFacts
    <2>2. scRules => UtcOf(date) <= scNow
      BY DEF FirstDueOK
    <2>3. UtcOf(date) \in Int
      BY <1>2
    <2> HIDE DEF date
    <2>4. scNow < ScDstEnd /\ UtcOf(date) <= scNow => UtcOf(date) < ScDstEnd
      BY <1>1, <2>3
    <2>5. ~(scNow < ScDstEnd) => scNow >= ScDstEnd
      BY <1>1
    <2> QED
      BY <2>1, <2>2, <2>4, <2>5
  <1> DEFINE t == IF NoneLeft(x, date) THEN [status |-> "INITIALIZED", current |-> date, next |-> date]
                  ELSE [status |-> "STARTED", current |-> date, next |-> DateAfter(x, date)]
  <1>4. scTimes' = [scTimes EXCEPT ![x] = t] /\ UNCHANGED scStarting
    BY DEF TimesUpdate
  <1>5. CASE NoneLeft(x, date)
    <2>1. t = [status |-> "INITIALIZED", current |-> date, next |-> date]
      BY <1>5
    <2> HIDE DEF t, date
    <2>2. t \in T /\ t.status = "INITIALIZED"
      BY <1>1, <2>1
    <2> QED
      BY <1>1, <1>4, <2>2, FirstTimesChanged
  <1>6. CASE ~NoneLeft(x, date)
    <2> DEFINE d == DateAfter(x, date)
    <2>1. t = [status |-> "STARTED", current |-> date, next |-> d]
      BY <1>6
    <2>2. d \in FtDate /\ FtReading(d)
      BY <1>1, <1>2, <1>6, FtNextFacts
    <2> HIDE DEF t, date, d
    <2>3. t \in T /\ t.status = "STARTED" /\ t.current = date /\ t.next = d
      BY <1>1, <2>1, <2>2
    <2> QED
      BY <1>1, <1>3, <1>4, <2>2, <2>3, FirstTimesChanged
  <1> QED
    BY <1>5, <1>6

LEMMA FirstTimesStep ==
    ASSUME FirstControl, FirstTimesOK, FirstDueOK, [ScNext]_scVars
    PROVE  FirstTimesOK'
  <1>1. ASSUME UNCHANGED <<scNow, scObjects>>, scRules' => scRules
        PROVE  FirstTimesOK'
    BY <1>1 DEF scObjects, FirstTimesOK, FtCounting, FtReading
  <1>2. CASE ScPass
    <2>1. scNow \in 0..ScMaxTime /\ scNow' = scNow + 1 /\ scNow < ScMaxTime /\ UNCHANGED <<scObjects, scRules>>
      BY <1>2 DEF ScPass, FirstTimesOK
    <2>2. ScMaxTime \in Nat /\ ScDstEnd \in Nat
      BY FirstTimesAssumption
    <2>3. scNow' \in 0..ScMaxTime /\ (scNow >= ScDstEnd => scNow' >= ScDstEnd)
      BY <2>1, <2>2
    <2> QED
      BY <2>1, <2>3 DEF scObjects, FirstTimesOK, FtCounting, FtReading
  <1>3. CASE \E x \in ScTimes :
                \/ ScTimesInit(x) \/ ScTimesFinish(x) \/ ScTimesStarted(x) \/ ScTimesStop(x)
                \/ \E date \in ScStartDates \cup {ScNever} : ScTimesStart(x, date)
    BY <1>3, FirstTimesMethods
  <1>4. ASSUME NEW destroyTimes \in BOOLEAN, ScFinish(destroyTimes)
        PROVE  FirstTimesOK'
    <2> DEFINE none == [status |-> "BUILDED", current |-> NoDateYet, next |-> NoDateYet]
    <2>1. /\ scTimes' = [x \in ScTimes |-> IF destroyTimes /\ IsListed(x) THEN none ELSE scTimes[x]]
          /\ scStarting = {} /\ UNCHANGED <<scNow, scStarting, scRules>>
      BY <1>4 DEF ScFinish
    <2>2. /\ none \in [status : {"BUILDED", "INITIALIZED", "STARTED"},
                       current : FtDate \cup {NoDateYet}, next : FtDate \cup {NoDateYet}]
          /\ none.status # "STARTED"
      OBVIOUS
    <2> HIDE DEF none
    <2>3. \A x \in ScTimes : scTimes'[x] = none \/ scTimes'[x] = scTimes[x]
      BY <2>1
    <2>4. scTimes' \in [ScTimes -> [status : {"BUILDED", "INITIALIZED", "STARTED"},
                                    current : FtDate \cup {NoDateYet}, next : FtDate \cup {NoDateYet}]]
      BY <2>1, <2>2 DEF FirstTimesOK
    <2>5. ASSUME NEW x \in ScTimes, FtCounting(x)'
          PROVE  /\ FtReading(scTimes[x].next)'
                 /\ scRules' => scTimes'[x].current.dst \/ scNow' >= ScDstEnd
      <3>1. scTimes'[x] = scTimes[x] /\ FtCounting(x)
        BY <2>1, <2>2, <2>3, <2>5 DEF FtCounting
      <3> QED
        BY <2>1, <3>1 DEF FirstTimesOK, FtReading
    <2> QED
      BY <2>1, <2>4, <2>5 DEF FirstTimesOK
  <1>5. CASE ScInit \/ ScStart \/ ScSuspend \/ ScResume \/ ScCancel \/ ScJoin
    BY <1>1, <1>5 DEF ScInit, ScStart, ScSuspend, ScResume, ScCancel, ScSetStatus, ScJoin
  <1>6. ASSUME NEW x \in ScTimes, ScActive(x) \/ ScDeactive(x)
        PROVE  FirstTimesOK'
    BY <1>1, <1>6 DEF ScActive, ScDeactive
  <1>7. CASE ScReads \/ ScEnters \/ ScLeaves \/ ScLooks \/ ScExpired
    BY <1>1, <1>7 DEF ScReads, ScEnters, ScLeaves, ScLooks, ScExpired, ScFails
  <1>8. CASE ScUpdates
    <2>1. scAt \in ScTimes
      BY <1>8, FirstListLength DEF ScUpdates, FirstControl, FirstLoopOK
    <2>2. CASE ScFails
      BY <1>1, <2>2 DEF ScFails
    <2>3. CASE scTimes[scAt].status = "STARTED"
      <3>1. TimesUpdate(scAt) /\ UNCHANGED <<scNow, scRules>> /\ scThread = "update"
        BY <1>8, <2>3 DEF ScUpdates
      <3> QED
        BY <2>1, <2>3, <3>1, FirstTimesUpdated
    <2> QED
      BY <1>8, <2>2, <2>3 DEF ScUpdates
  <1>9. CASE ScHandled \/ ScHandlerFails
    BY <1>1, <1>9 DEF ScHandled, ScHandlerFails, Follows
  <1>10. CASE UNCHANGED scVars
    BY <1>1, <1>10 DEF scVars
  <1> QED
    BY <1>2, <1>3, <1>4, <1>5, <1>6, <1>7, <1>8, <1>9, <1>10 DEF ScNext, ScClient, ScRun

\* The clients do not touch a Times between its isExpiredTime and its update,
\* unless they break a rule.
LEMMA FirstDueClient ==
    ASSUME FirstControl, FirstTimesOK, FirstDueOK, ScClient
    PROVE  FirstDueOK'
  <1> SUFFICES ASSUME scRules', scThread' = "update"
               PROVE  scTimes'[scAt'].status = "STARTED" /\ UtcOf(scTimes'[scAt'].next) <= scNow'
    BY DEF FirstDueOK, UtcOf
  <1>0. FirstListOK /\ FirstLoopOK
    BY DEF FirstControl
  <1>1. ASSUME scRules, scThread = "update"
        PROVE  /\ scAt \in ScTimes /\ IsListed(scAt)
               /\ scTimes[scAt].status = "STARTED" /\ UtcOf(scTimes[scAt].next) <= scNow
               /\ UtcOf(scTimes[scAt].next) \in Int /\ scAt \notin scStarting
    <2>1. scIndex \in 1..Len(scList) /\ scList[scIndex] = scAt
      BY <1>0, <1>1 DEF FirstLoopOK
    <2>2. scAt \in ScTimes /\ IsListed(scAt)
      BY <1>0, <2>1, FirstListLength DEF IsListed
    <2>3. scTimes[scAt].status = "STARTED" /\ UtcOf(scTimes[scAt].next) <= scNow
      BY <1>1 DEF FirstDueOK
    <2>4. scAt \notin scStarting /\ FtReading(scTimes[scAt].next)
      BY <2>2, <2>3 DEF FirstTimesOK, FtCounting
    <2> QED
      BY <2>2, <2>3, <2>4 DEF FtReading
  <1>2. CASE ScPass
    <2>1. scRules /\ scThread = "update" /\ scAt' = scAt /\ scTimes' = scTimes /\ scNow' = scNow + 1
      BY <1>2 DEF ScPass, scObjects, scLoop
    <2>2. scNow \in Int
      BY FirstTimesAssumption DEF FirstTimesOK
    <2> QED
      BY <1>1, <2>1, <2>2
  <1>3. CASE ScInit
    <2>1. scRules /\ scThread = "update" /\ scAt' = scAt /\ scTimes' = scTimes /\ scNow' = scNow
      BY <1>3 DEF ScInit, scObjects, scLoop
    <2> QED
      BY <1>1, <2>1
  <1>4. ~ScStart /\ ~ScSuspend /\ ~ScResume /\ ~ScCancel /\ ~ScJoin /\ (\A d \in BOOLEAN : ~ScFinish(d))
    BY DEF ScStart, ScSuspend, ScResume, ScCancel, ScSetStatus, ScJoin, ScFinish, MutexFree, scLoop
  <1>5. \A x \in ScTimes : ~ScActive(x) /\ ~ScDeactive(x)
    BY DEF ScActive, ScDeactive, MutexFree, scLoop
  <1>6. ASSUME NEW x \in ScTimes,
               \/ ScTimesInit(x) \/ ScTimesFinish(x) \/ ScTimesStarted(x) \/ ScTimesStop(x)
               \/ \E date \in ScStartDates \cup {ScNever} : ScTimesStart(x, date)
        PROVE  scTimes'[scAt'].status = "STARTED" /\ UtcOf(scTimes'[scAt'].next) <= scNow'
    <2>1. scThread = "update" /\ scAt' = scAt /\ scNow' = scNow
      BY <1>6 DEF ScTimesInit, ScTimesFinish, ScTimesStarted, ScTimesStop, ScTimesStart, ScOthers, scLoop
    <2>2. scRules
      <3>1. CASE ScTimesInit(x) \/ ScTimesStarted(x)
        BY <3>1 DEF ScTimesInit, ScTimesStarted
      <3>2. CASE ScTimesFinish(x) \/ ScTimesStop(x)
        BY <3>2 DEF ScTimesFinish, ScTimesStop, Follows
      <3>3. ASSUME NEW date, ScTimesStart(x, date) PROVE scRules
        BY <3>3 DEF ScTimesStart, Follows
      <3> QED
        BY <1>6, <3>1, <3>2, <3>3
    <2>3. scAt \in ScTimes /\ IsListed(scAt) /\ scTimes[scAt].status = "STARTED" /\ scAt \notin scStarting
      BY <1>1, <2>1, <2>2
    <2>4. x # scAt
      <3>1. ~ScTimesInit(scAt) /\ ~ScTimesStarted(scAt) /\ \A date : ~ScTimesStart(scAt, date)
        BY <2>3 DEF ScTimesInit, TimesInit, ScTimesStarted, TimesStarted, ScTimesStart, TimesStart
      <3>2. ~ScTimesFinish(scAt)
        BY <2>3 DEF ScTimesFinish, Follows
      <3>3. ~ScTimesStop(scAt)
        BY <2>1, <2>3 DEF ScTimesStop, Follows
      <3> QED
        BY <1>6, <3>1, <3>2, <3>3
    <2>5. scTimes'[scAt] = scTimes[scAt]
      <3>1. scTimes \in [ScTimes -> [status : {"BUILDED", "INITIALIZED", "STARTED"},
                                     current : FtDate \cup {NoDateYet}, next : FtDate \cup {NoDateYet}]]
        BY DEF FirstTimesOK
      <3>2. CASE ScTimesInit(x) \/ ScTimesFinish(x) \/ ScTimesStarted(x) \/ ScTimesStop(x)
        BY <2>3, <2>4, <3>1, <3>2 DEF ScTimesInit, TimesInit, ScTimesFinish, TimesFinish, ScTimesStarted, TimesStarted,
                                      ScTimesStop, TimesStop
      <3>3. ASSUME NEW date, ScTimesStart(x, date) PROVE scTimes'[scAt] = scTimes[scAt]
        <4> DEFINE first == FirstDate(date)
                   d == DateAfter(x, first)
        <4>1. \/ scTimes' = [scTimes EXCEPT ![x].current = first]
              \/ scTimes' = [scTimes EXCEPT ![x].current = first, ![x].next = d]
          BY <3>3 DEF ScTimesStart, TimesStart
        <4> HIDE DEF first, d
        <4> QED
          BY <2>3, <2>4, <3>1, <4>1
      <3> QED
        BY <1>6, <3>2, <3>3
    <2> QED
      BY <1>1, <2>1, <2>2, <2>5
  <1> QED
    BY <1>2, <1>3, <1>4, <1>5, <1>6 DEF ScClient

LEMMA FirstDueStep ==
    ASSUME FirstControl, FirstTimesOK, FirstDueOK, [ScNext]_scVars
    PROVE  FirstDueOK'
  <1>1. CASE ScClient
    BY <1>1, FirstDueClient
  <1>2. CASE ScReads \/ ScEnters \/ ScLeaves \/ ScLooks \/ ScUpdates \/ ScHandled \/ ScHandlerFails
    <2>1. scThread' # "update"
      BY <1>2 DEF ScReads, ScEnters, ScLeaves, ScLooks, ScUpdates, ScHandled, ScHandlerFails, ScFails, Runs
    <2> QED
      BY <2>1 DEF FirstDueOK
  <1>3. CASE ScExpired
    <2>1. CASE ScFails
      BY <2>1 DEF ScFails, Runs, FirstDueOK
    <2>2. CASE Runs("look")
      BY <2>2 DEF Runs, FirstDueOK
    <2>3. CASE /\ scTimes[scAt].status = "STARTED" /\ HasExpired(scAt)
               /\ UNCHANGED <<scIndex, scAt, scNow, scObjects, scStatus, scTable, scRules, scDeactived>>
      <3>1. scAt \in ScTimes
        <4>1. FirstListOK /\ scIndex \in 1..Len(scList) /\ scList[scIndex] = scAt
          BY <1>3 DEF ScExpired, FirstControl, FirstLoopOK
        <4> QED
          BY <4>1, FirstListLength
      <3>2. scRules => UtcOf(scTimes[scAt].next) <= scNow
        BY <2>3, <3>1, FtExpiredIsDue DEF FtCounting
      <3> QED
        BY <2>3, <3>2 DEF FirstDueOK, scObjects, UtcOf
    <2> QED
      BY <1>3, <2>1, <2>2, <2>3 DEF ScExpired
  <1>4. CASE UNCHANGED scVars
    BY <1>4 DEF FirstDueOK, scVars, scObjects, scLoop, UtcOf
  <1> QED
    BY <1>1, <1>2, <1>3, <1>4 DEF ScNext, ScRun

\* The list, the loop and the dates of the first scheduler, for any Times,
\* periods, schedules and growth of the array.
THEOREM FirstSchedulerInvariant == ScSpec => []FirstInv
  <1>1. ScInitial => FirstInv
    BY FirstControlInit, FirstTimesInit DEF FirstInv
  <1>2. FirstInv /\ [ScNext]_scVars => FirstInv'
    BY FirstControlStep, FirstTimesStep, FirstDueStep DEF FirstInv
  <1> QED
    BY <1>1, <1>2, PTL DEF ScSpec

\* Whatever the handlers and the clients do, no Times is in the list twice, no
\* handler runs before its timeout, and handleTimes takes off the list only
\* the Times that timed out.
THEOREM FirstSchedulerIsSafe == ScSpec => SchedulerSafe
  <1>1. FirstInv => ScTypeOK
    <2>1. FirstInv => /\ FirstListOK /\ FirstLoopOK /\ FirstTimesOK
      BY DEF FirstInv, FirstControl
    <2>2. FirstTimesOK => /\ scNow \in 0..ScMaxTime /\ scStarting \subseteq ScTimes
                          /\ \A x \in ScTimes : scTimes[x].status \in {"BUILDED", "INITIALIZED", "STARTED"}
                                                /\ scTimes[x].next.dst \in BOOLEAN
      <3> SUFFICES ASSUME FirstTimesOK, NEW x \in ScTimes
                   PROVE  /\ scTimes[x].status \in {"BUILDED", "INITIALIZED", "STARTED"}
                          /\ scTimes[x].next.dst \in BOOLEAN
        BY DEF FirstTimesOK
      <3>1. scTimes[x].status \in {"BUILDED", "INITIALIZED", "STARTED"} /\ scTimes[x].next \in FtDate \cup {NoDateYet}
        BY DEF FirstTimesOK
      <3>2. \A date \in FtDate \cup {NoDateYet} : date.dst \in BOOLEAN
        <4>1. ASSUME NEW date \in FtDate PROVE date.dst \in BOOLEAN
          BY DEF FtDate
        <4>2. NoDateYet.dst = FALSE
          BY DEF NoDateYet
        <4>3. NoDateYet.dst \in BOOLEAN
          BY <4>2
        <4> QED
          BY <4>1, <4>3
      <3> QED
        BY <3>1, <3>2
    <2> QED
      BY <2>1, <2>2, FirstListLength DEF ScTypeOK, FirstListOK, FirstLoopOK
  <1>2. FirstInv => ListedOnce
    BY DEF FirstInv, FirstControl, FirstListOK
  <1>3. FirstInv => (scRules /\ scThread = "update" /\ scThread' = "handler" => UtcOf(scTimes[scAt].next) <= scNow)
    BY DEF FirstInv, FirstDueOK
  <1>4. FirstInv /\ [ScNext]_scVars
            => [scRules' /\ scThread \in {"update", "handler"} /\ scThread' # scThread =>
                    \A x \in ScTimes \ {scAt} : IsListed(x)' = IsListed(x)]_scVars
    BY FirstDeactivates DEF FirstInv
  <1>5. ScSpec => []ScTypeOK /\ []ListedOnce
    BY <1>1, <1>2, FirstSchedulerInvariant, PTL
  <1>6. ScSpec => HandledWhenDue
    BY <1>3, FirstSchedulerInvariant, PTL DEF HandledWhenDue
  <1>7. ScSpec => DeactivatesNoOther
    BY <1>4, FirstSchedulerInvariant, PTL DEF DeactivatesNoOther, ScSpec
  <1> QED
    BY <1>5, <1>6, <1>7 DEF SchedulerSafe

(***************************************************************************)
(* The calendar of Times2: it finds the next date of every schedule and    *)
(* passes none over, and gives the dates that Times gave.                  *)
(*                                                                         *)
(* First the arithmetic of dates: seconds, minutes, hours, days, months    *)
(* and years divide one another, and a field of the local time is the same *)
(* for all the instants of a cell of them.                                 *)
(***************************************************************************)
LEMMA DivMod ==
    ASSUME NEW a \in Int, NEW d \in Nat \ {0}
    PROVE  a % d \in 0..d - 1 /\ a \div d \in Int /\ a = d * (a \div d) + (a % d)
  OBVIOUS

LEMMA DivOf ==
    ASSUME NEW a \in Int, NEW d \in Nat \ {0}, NEW q \in Int, d * q <= a, a < d * q + d
    PROVE  a \div d = q /\ a % d = a - d * q
  OBVIOUS

LEMMA DivShift ==
    ASSUME NEW a \in Int, NEW d \in Nat \ {0}, NEW k \in Int
    PROVE  (a + d * k) % d = a % d /\ (a + d * k) \div d = (a \div d) + k
  <1> DEFINE q == a \div d
             r == a % d
             b == a + d * k
  <1>1. a = d * q + r /\ r \in 0..d - 1 /\ q \in Int
    BY DivMod
  <1> HIDE DEF q, r
  <1>2. b = d * (q + k) + r /\ b \in Int /\ d * (q + k) \in Int
    BY <1>1
  <1>3. d * (q + k) <= b /\ b < d * (q + k) + d
    BY <1>1, <1>2
  <1> DEFINE p == q + k
  <1>4. p \in Int /\ d * p <= b /\ b < d * p + d
    BY <1>1, <1>3
  <1> HIDE DEF b, p
  <1>5. b \div d = p /\ b % d = b - d * p
    BY <1>2, <1>4, DivOf
  <1>6. b % d = r
    BY <1>1, <1>2, <1>5 DEF p
  <1> QED
    BY <1>5, <1>6 DEF b, p, q, r

\* A unit of n units of d.
LEMMA DivDiv ==
    ASSUME NEW a \in Int, NEW d \in Nat \ {0}, NEW n \in Nat \ {0}
    PROVE  /\ a \div (n * d) = (a \div d) \div n
           /\ (a % (n * d)) \div d = (a \div d) % n
           /\ (a % (n * d)) % d = a % d
  <1> DEFINE e == n * d
  <1> DEFINE q == a \div d
             r == a % d
             p == q \div n
             s == q % n
  <1>1. a = d * q + r /\ r \in 0..d - 1 /\ q \in Int
    BY DivMod
  <1>2. q = n * p + s /\ s \in 0..n - 1 /\ p \in Int
    BY <1>1, DivMod
  <1>3. e \in Nat \ {0}
    OBVIOUS
  <1> HIDE DEF q, r, p, s, e
  <1>4. d * q = e * p + d * s
    BY <1>1, <1>2 DEF e
  <1>5. d * s + d <= e /\ 0 <= d * s
    BY <1>1, <1>2 DEF e
  <1>6. d * s + r \in 0..e - 1
    BY <1>1, <1>2, <1>3, <1>5
  <1>7. a \div e = p /\ a % e = d * s + r
    <2>1. e * p <= a /\ a < e * p + e
      BY <1>1, <1>2, <1>3, <1>4, <1>6
    <2>2. a \div e = p /\ a % e = a - e * p
      BY <2>1, <1>2, <1>3, DivOf
    <2> QED
      BY <2>2, <1>1, <1>2, <1>3, <1>4
  <1>8. (d * s + r) \div d = s /\ (d * s + r) % d = r
    BY <1>1, <1>2, DivOf
  <1>9. a \div e = q \div n /\ (a % e) \div d = q % n /\ (a % e) % d = a % d
    BY <1>7, <1>8 DEF r, p, s
  <1> QED
    BY <1>9, Zenon DEF q, e

(***************************************************************************)
(* The year: DaysBefore adds up the months.                                *)
(***************************************************************************)
LEMMA MonthsOfYear == ClMonths \in Nat \ {0} /\ ClMonthDays \in [1..ClMonths -> Nat \ {0}]
  <1>1. ClMonthDays \in Seq(Nat \ {0}) /\ ClFebruary \in 1..ClMonths
    BY CalendarAssumption
  <1>2. ClMonths \in Nat
    BY <1>1 DEF ClMonths
  <1>3. ClMonths # 0
    BY <1>1, <1>2
  <1>4. ClMonthDays \in [1..ClMonths -> Nat \ {0}]
    BY <1>1 DEF ClMonths
  <1> QED
    BY <1>2, <1>3, <1>4

LEMMA DaysBeforeExists ==
    ASSUME NEW n \in Nat, n <= ClMonths
    PROVE  \E f \in [1..n + 1 -> Nat] : f[1] = 0 /\ \A m \in 1..n : f[m + 1] = f[m] + ClMonthDays[m]
  <1> DEFINE Sums(k) == \E f \in [1..k + 1 -> Nat] :
                            f[1] = 0 /\ \A m \in 1..k : f[m + 1] = f[m] + ClMonthDays[m]
             T == {k \in 0..ClMonths : ~Sums(k)}
  <1>1. ClMonths \in Nat /\ \A m \in 1..ClMonths : ClMonthDays[m] \in Nat
    BY MonthsOfYear
  <1>2. Sums(0)
    <2> DEFINE f == [m \in 1..0 + 1 |-> 0]
    <2>1. f \in [1..0 + 1 -> Nat] /\ f[1] = 0 /\ 1..0 = {}
      OBVIOUS
    <2> QED
      BY <2>1
  <1>3. ASSUME NEW k \in 0..ClMonths - 1, Sums(k)
        PROVE  Sums(k + 1)
    <2>1. PICK f \in [1..k + 1 -> Nat] : f[1] = 0 /\ \A m \in 1..k : f[m + 1] = f[m] + ClMonthDays[m]
      BY <1>3
    <2> DEFINE g == [m \in 1..(k + 1) + 1 |-> IF m = k + 2 THEN f[k + 1] + ClMonthDays[k + 1] ELSE f[m]]
    <2>2. g \in [1..(k + 1) + 1 -> Nat]
      BY <1>1, <2>1, <1>3
    <2>3. g[1] = 0
      BY <2>1, <1>3
    <2>4. \A m \in 1..k + 1 : g[m + 1] = g[m] + ClMonthDays[m]
      BY <2>1, <1>3
    <2> QED
      BY <2>2, <2>3, <2>4
  <1> HIDE DEF Sums
  <1>4. T = {}
    <2> SUFFICES ASSUME T # {} PROVE FALSE
      OBVIOUS
    <2>0. T \subseteq Nat
      BY <1>1
    <2>1. PICK k \in T : \A j \in T : k <= j
      <3> HIDE DEF T
      <3> QED
        BY <2>0, LeastInstant
    <2>2. k # 0
      BY <1>2
    <2>3. k - 1 \in 0..ClMonths - 1 /\ ~(k - 1 \in T)
      BY <2>1, <2>2, <1>1
    <2>4. Sums(k - 1)
      <3>1. k - 1 \in 0..ClMonths
        BY <2>3, <1>1
      <3> QED
        BY <2>3, <3>1, Zenon
    <2>5. Sums((k - 1) + 1)
      BY <2>3, <2>4, <1>3
    <2>6. (k - 1) + 1 = k
      BY <2>1, <1>1
    <2> QED
      BY <2>5, <2>6, <2>1
  <1>5. Sums(n)
    BY <1>1, <1>4
  <1> QED
    BY <1>5 DEF Sums

LEMMA DaysBeforeSums ==
    /\ ClMonths \in Nat \ {0}
    /\ ClMonthDays \in [1..ClMonths -> Nat \ {0}]
    /\ DaysBefore \in [1..ClMonths + 1 -> Nat]
    /\ DaysBefore[1] = 0
    /\ \A m \in 1..ClMonths : DaysBefore[m + 1] = DaysBefore[m] + ClMonthDays[m]
  <1>1. ClMonths \in Nat \ {0} /\ ClMonthDays \in [1..ClMonths -> Nat \ {0}]
    BY MonthsOfYear
  <1>2. PICK f \in [1..ClMonths + 1 -> Nat] :
            f[1] = 0 /\ \A m \in 1..ClMonths : f[m + 1] = f[m] + ClMonthDays[m]
    <2>1. ClMonths \in Nat /\ ClMonths <= ClMonths
      BY <1>1
    <2> QED
      BY <2>1, DaysBeforeExists
  <1>3. f = [m \in 1..ClMonths + 1 |-> IF m = 1 THEN 0 ELSE f[m - 1] + ClMonthDays[m - 1]]
    <2>1. \A m \in 1..ClMonths + 1 : f[m] = IF m = 1 THEN 0 ELSE f[m - 1] + ClMonthDays[m - 1]
      <3> TAKE m \in 1..ClMonths + 1
      <3>1. CASE m = 1
        BY <3>1, <1>2
      <3>2. CASE m # 1
        <4>1. m - 1 \in 1..ClMonths /\ (m - 1) + 1 = m
          BY <3>2, <1>1
        <4> QED
          BY <4>1, <3>2, <1>2
      <3> QED
        BY <3>1, <3>2
    <2> QED
      BY <2>1, <1>1
  <1>4. DaysBefore = [m \in 1..ClMonths + 1 |-> IF m = 1 THEN 0 ELSE DaysBefore[m - 1] + ClMonthDays[m - 1]]
    BY <1>3 DEF DaysBefore
  <1>5. ASSUME NEW m \in 1..ClMonths
        PROVE  DaysBefore[m + 1] = DaysBefore[m] + ClMonthDays[m]
    <2>1. m + 1 \in 1..ClMonths + 1 /\ m + 1 # 1 /\ (m + 1) - 1 = m
      BY <1>1
    <2> QED
      BY <2>1, <1>4
  <1>6. 1 \in 1..ClMonths + 1
    BY <1>1
  <1>7. DaysBefore[1] = 0
    BY <1>4, <1>6
  <1>8. DaysBefore \in [1..ClMonths + 1 -> Nat]
    <2> DEFINE T == {m \in 1..ClMonths + 1 : DaysBefore[m] \notin Nat}
    <2>1. T = {}
      <3> SUFFICES ASSUME T # {} PROVE FALSE
        OBVIOUS
      <3>1. T \subseteq Nat
        BY <1>1
      <3>2. PICK m \in T : \A n \in T : m <= n
        <4> HIDE DEF T
        <4> QED
          BY <3>1, LeastInstant
      <3>3. m # 1
        BY <1>7
      <3>4. m - 1 \in 1..ClMonths /\ m - 1 \notin T /\ (m - 1) + 1 = m
        BY <3>1, <3>2, <3>3, <1>1
      <3>5. DaysBefore[m] = DaysBefore[m - 1] + ClMonthDays[m - 1]
        BY <3>4, <1>5
      <3>6. DaysBefore[m - 1] \in Nat /\ ClMonthDays[m - 1] \in Nat
        BY <3>4, <1>1
      <3>7. DaysBefore[m] \in Nat
        BY <3>5, <3>6
      <3> QED
        BY <3>2, <3>7
    <2> QED
      BY <2>1, <1>4
  <1> QED
    BY <1>1, <1>5, <1>7, <1>8

LEMMA DaysBeforeOrdered ==
    ASSUME NEW m \in 1..ClMonths + 1, NEW n \in 1..ClMonths + 1, m < n
    PROVE  DaysBefore[m] < DaysBefore[n]
  <1> DEFINE T == {k \in 1..ClMonths + 1 : m < k /\ ~(DaysBefore[m] < DaysBefore[k])}
  <1>1. T = {}
    <2> SUFFICES ASSUME T # {} PROVE FALSE
      OBVIOUS
    <2>1. T \subseteq Nat
      BY DaysBeforeSums
    <2>2. PICK k \in T : \A j \in T : k <= j
      <3> HIDE DEF T
      <3> QED
        BY <2>1, LeastInstant
    <2>3. k - 1 \in 1..ClMonths /\ (k - 1) + 1 = k /\ m <= k - 1 /\ k - 1 \notin T
      <3>1. ClMonths \in Nat
        BY DaysBeforeSums
      <3>2. k \in Int /\ m \in Int /\ 1 <= m /\ m < k /\ k <= ClMonths + 1
        BY <2>2, <3>1
      <3>3. k - 1 \in 1..ClMonths /\ (k - 1) + 1 = k /\ m <= k - 1
        BY <3>1, <3>2
      <3>4. ~(k <= k - 1)
        BY <3>2
      <3> HIDE DEF T
      <3>5. k - 1 \notin T
        BY <2>2, <3>4
      <3> QED
        BY <3>3, <3>5
    <2>4. DaysBefore[k] = DaysBefore[k - 1] + ClMonthDays[k - 1] /\ ClMonthDays[k - 1] \in Nat \ {0}
      BY <2>3, DaysBeforeSums
    <2>5. DaysBefore[m] \in Nat /\ DaysBefore[k - 1] \in Nat /\ DaysBefore[k] \in Nat
      BY <2>2, <2>3, DaysBeforeSums
    <2>6. m = k - 1 \/ DaysBefore[m] < DaysBefore[k - 1]
      <3>1. k - 1 \in 1..ClMonths + 1 /\ k - 1 \in Int /\ m \in Int
        BY <2>3, DaysBeforeSums
      <3> QED
        BY <2>3, <3>1
    <2> QED
      BY <2>2, <2>4, <2>5, <2>6
  <1> QED
    BY <1>1

\* The days of a year.
YearDays == DaysBefore[ClMonths + 1]

LEMMA Units ==
    /\ ClSeconds \in Nat \ {0} /\ ClMinutes \in Nat \ {0} /\ ClHours \in Nat \ {0}
    /\ ClWeek \in Nat \ {0} /\ ClYears \in Nat \ {0} /\ YearDays \in Nat \ {0}
    /\ ClMinute \in Nat \ {0} /\ ClHour \in Nat \ {0} /\ ClDay \in Nat \ {0} /\ ClYear \in Nat \ {0}
    /\ ClMinute = ClSeconds /\ ClHour = ClMinutes * ClMinute /\ ClDay = ClHours * ClHour
    /\ ClYear = YearDays * ClDay
    /\ ClHorizon = ClYears * ClYear /\ ClHorizon \in Nat
  <1>1. /\ ClSeconds \in Nat \ {0} /\ ClMinutes \in Nat \ {0} /\ ClHours \in Nat \ {0}
        /\ ClWeek \in Nat \ {0} /\ ClYears \in Nat \ {0}
    BY CalendarAssumption
  <1>2. YearDays \in Nat \ {0}
    BY DaysBeforeSums, DaysBeforeOrdered DEF YearDays
  <1>3. ClMinute \in Nat \ {0}
    BY <1>1 DEF ClMinute
  <1>4. ClHour \in Nat \ {0}
    BY <1>1, <1>3 DEF ClHour
  <1>5. ClDay \in Nat \ {0}
    BY <1>1, <1>4 DEF ClDay
  <1>6. ClYear = YearDays * ClDay
    BY DEF ClYear, YearDays
  <1>7. ClYear \in Nat \ {0}
    BY <1>2, <1>5, <1>6
  <1>8. ClHorizon \in Nat
    BY <1>1, <1>7 DEF ClHorizon
  <1>9. ClMinute = ClSeconds /\ ClHour = ClMinutes * ClMinute /\ ClDay = ClHours * ClHour /\ ClHorizon = ClYears * ClYear
    BY DEF ClMinute, ClHour, ClDay, ClHorizon
  <1> QED
    BY <1>1, <1>2, <1>3, <1>4, <1>5, <1>6, <1>7, <1>8, <1>9

LEMMA MonthOfDay ==
    ASSUME NEW day \in 0..YearDays - 1
    PROVE  \E m \in 1..ClMonths : DaysBefore[m] <= day /\ day < DaysBefore[m + 1]
  <1> DEFINE T == {m \in 1..ClMonths + 1 : day < DaysBefore[m]}
  <1>1. T \subseteq Nat /\ ClMonths + 1 \in T
    <2>1. YearDays \in Nat /\ ClMonths + 1 \in 1..ClMonths + 1
      BY DaysBeforeSums, Units
    <2>2. day < DaysBefore[ClMonths + 1]
      BY <2>1 DEF YearDays
    <2> QED
      BY <2>1, <2>2, DaysBeforeSums
  <1>2. PICK m \in T : \A n \in T : m <= n
    <2> HIDE DEF T
    <2> QED
      BY <1>1, LeastInstant
  <1>3. m # 1
    BY <1>2, DaysBeforeSums
  <1>4. m - 1 \in 1..ClMonths /\ (m - 1) + 1 = m /\ m - 1 \notin T
    BY <1>1, <1>2, <1>3, DaysBeforeSums
  <1>5. DaysBefore[m - 1] \in Nat /\ m - 1 \in 1..ClMonths + 1 /\ day \in Int
    BY <1>4, DaysBeforeSums, Units
  <1>6. DaysBefore[m - 1] <= day
    BY <1>4, <1>5
  <1> QED
    BY <1>2, <1>4, <1>6

LEMMA MonthUnique ==
    ASSUME NEW day \in Int, NEW m \in 1..ClMonths, NEW n \in 1..ClMonths,
           DaysBefore[m] <= day, day < DaysBefore[m + 1], DaysBefore[n] <= day, day < DaysBefore[n + 1]
    PROVE  m = n
  <1>1. /\ m \in 1..ClMonths + 1 /\ n \in 1..ClMonths + 1 /\ m + 1 \in 1..ClMonths + 1 /\ n + 1 \in 1..ClMonths + 1
        /\ ClMonths \in Nat /\ DaysBefore \in [1..ClMonths + 1 -> Nat]
    <2>1. ClMonths \in Nat /\ DaysBefore \in [1..ClMonths + 1 -> Nat]
      BY DaysBeforeSums
    <2> QED
      BY <2>1
  <1>2. ASSUME m < n PROVE FALSE
    <2>1. m + 1 = n \/ m + 1 < n
      BY <1>1, <1>2
    <2>2. DaysBefore[m + 1] <= DaysBefore[n]
      BY <2>1, <1>1, DaysBeforeOrdered
    <2> QED
      BY <2>2, <1>1
  <1>3. ASSUME n < m PROVE FALSE
    <2>1. n + 1 = m \/ n + 1 < m
      BY <1>1, <1>3
    <2>2. DaysBefore[n + 1] <= DaysBefore[m]
      BY <2>1, <1>1, DaysBeforeOrdered
    <2> QED
      BY <2>2, <1>1
  <1> QED
    BY <1>1, <1>2, <1>3

(***************************************************************************)
(* The local time, and the fields of a date.                               *)
(***************************************************************************)
ClWall(u) == u + (IF InDst(u) THEN ClHour ELSE 0)
Instants == 0..ClHorizon + 2 * ClDay
DayOfYear(w) == (w % ClYear) \div ClDay

LEMMA LocalFields ==
    ASSUME NEW u \in Instants
    PROVE  /\ DOMAIN LocalOf = Instants /\ u \in DOMAIN LocalOf
           /\ LocalOf[u].wall = ClWall(u) /\ ClWall(u) \in Nat
           /\ LocalOf[u].year = ClWall(u) \div ClYear
           /\ LocalOf[u].mon \in 1..ClMonths
           /\ DaysBefore[LocalOf[u].mon] <= DayOfYear(ClWall(u))
           /\ DayOfYear(ClWall(u)) < DaysBefore[LocalOf[u].mon + 1]
           /\ LocalOf[u].mday = 1 + DayOfYear(ClWall(u)) - DaysBefore[LocalOf[u].mon]
           /\ LocalOf[u].wday = (ClWall(u) \div ClDay) % ClWeek
           /\ LocalOf[u].hour = (ClWall(u) % ClDay) \div ClHour
           /\ LocalOf[u].min = (ClWall(u) % ClHour) \div ClMinute
           /\ LocalOf[u].sec = ClWall(u) % ClMinute
  <1>1. DOMAIN LocalOf = Instants /\ u \in DOMAIN LocalOf
    BY DEF LocalOf, Instants
  <1>2. LocalOf[u] = BrokenDown(ClWall(u), InDst(u))
    BY DEF LocalOf, Instants, ClWall
  <1>3. ClWall(u) \in Nat
    BY Units DEF ClWall, Instants
  <1> DEFINE w == ClWall(u)
             day == (w % ClYear) \div ClDay
             mon == CHOOSE m \in 1..ClMonths : DaysBefore[m] <= day /\ day < DaysBefore[m + 1]
  <1>4. day \in 0..YearDays - 1
    <2> HIDE DEF w
    <2>1. day = (w \div ClDay) % YearDays
      <3>1. w \in Int /\ ClDay \in Nat \ {0} /\ YearDays \in Nat \ {0} /\ ClYear = YearDays * ClDay /\ ClYear \in Nat
        BY <1>3, Units DEF w
      <3>2. (w % (YearDays * ClDay)) \div ClDay = (w \div ClDay) % YearDays
        BY <3>1, DivDiv, Zenon
      <3> QED
        BY <3>1, <3>2
    <2>2. w \div ClDay \in Int
      BY <1>3, Units DEF w
    <2> HIDE DEF day
    <2> QED
      BY <2>1, <2>2, Units, DivMod
  <1>5. mon \in 1..ClMonths /\ DaysBefore[mon] <= day /\ day < DaysBefore[mon + 1]
    <2> HIDE DEF day
    <2>1. \E m \in 1..ClMonths : DaysBefore[m] <= day /\ day < DaysBefore[m + 1]
      BY <1>4, MonthOfDay
    <2> QED
      BY <2>1, Zenon
  <1>6. LocalOf[u] = [year |-> w \div ClYear, mon |-> mon, mday |-> 1 + day - DaysBefore[mon],
                      wday |-> (w \div ClDay) % ClWeek, hour |-> (w % ClDay) \div ClHour,
                      min |-> (w % ClHour) \div ClMinute, sec |-> w % ClMinute, wall |-> w, dst |-> InDst(u)]
    BY <1>2, Zenon DEF BrokenDown
  <1>7. day = DayOfYear(w)
    BY DEF DayOfYear
  <1> HIDE DEF w, day, mon
  <1>8. /\ LocalOf[u].year = w \div ClYear /\ LocalOf[u].mon = mon /\ LocalOf[u].mday = 1 + day - DaysBefore[mon]
        /\ LocalOf[u].wday = (w \div ClDay) % ClWeek /\ LocalOf[u].hour = (w % ClDay) \div ClHour
        /\ LocalOf[u].min = (w % ClHour) \div ClMinute /\ LocalOf[u].sec = w % ClMinute /\ LocalOf[u].wall = w
    BY <1>6
  <1> QED
    BY <1>1, <1>3, <1>5, <1>7, <1>8 DEF w

\* Two instants of the same day, hour or minute have the same fields.
LEMMA DayCell ==
    ASSUME NEW u \in Instants, NEW v \in Instants, ClWall(u) \div ClDay = ClWall(v) \div ClDay
    PROVE  /\ LocalOf[u].year = LocalOf[v].year /\ LocalOf[u].mon = LocalOf[v].mon
           /\ LocalOf[u].mday = LocalOf[v].mday /\ LocalOf[u].wday = LocalOf[v].wday
  <1>1. ClDay \in Nat \ {0} /\ YearDays \in Nat \ {0} /\ ClYear = YearDays * ClDay
    BY Units
  <1>2. ClWall(u) \in Int /\ ClWall(v) \in Int
    BY LocalFields
  <1>3. \A w \in Int : /\ w \div (YearDays * ClDay) = (w \div ClDay) \div YearDays
                       /\ (w % (YearDays * ClDay)) \div ClDay = (w \div ClDay) % YearDays
                       /\ w \div ClDay \in Int
    BY <1>1, DivDiv, DivMod, Zenon
  <1>4. /\ ClWall(u) \div ClYear = ClWall(v) \div ClYear
        /\ DayOfYear(ClWall(u)) = DayOfYear(ClWall(v))
        /\ DayOfYear(ClWall(u)) \in Int
    <2>1. DayOfYear(ClWall(u)) = (ClWall(u) \div ClDay) % YearDays
      BY <1>1, <1>2, <1>3, Zenon DEF DayOfYear
    <2>2. DayOfYear(ClWall(v)) = (ClWall(u) \div ClDay) % YearDays
      BY <1>1, <1>2, <1>3, Zenon DEF DayOfYear
    <2>3. (ClWall(u) \div ClDay) % YearDays \in Int
      BY <1>1, <1>2
    <2>4. ClWall(u) \div ClYear = (ClWall(u) \div ClDay) \div YearDays
      BY <1>1, <1>2, <1>3, Zenon
    <2>5. ClWall(v) \div ClYear = (ClWall(u) \div ClDay) \div YearDays
      BY <1>1, <1>2, <1>3, Zenon
    <2> QED
      BY <2>1, <2>2, <2>3, <2>4, <2>5, Zenon
  <1>5. LocalOf[u].mon = LocalOf[v].mon
    <2> DEFINE day == DayOfYear(ClWall(u))
    <2>1. /\ LocalOf[u].mon \in 1..ClMonths /\ LocalOf[v].mon \in 1..ClMonths /\ day \in Int
          /\ DaysBefore[LocalOf[u].mon] <= day /\ day < DaysBefore[LocalOf[u].mon + 1]
          /\ DaysBefore[LocalOf[v].mon] <= day /\ day < DaysBefore[LocalOf[v].mon + 1]
      BY <1>4, LocalFields
    <2> HIDE DEF day
    <2> QED
      BY <2>1, MonthUnique
  <1>6. LocalOf[u].year = LocalOf[v].year
    BY <1>4, LocalFields, Zenon
  <1>7. LocalOf[u].mday = LocalOf[v].mday
    BY <1>4, <1>5, LocalFields, Zenon
  <1>8. LocalOf[u].wday = LocalOf[v].wday
    BY LocalFields, Zenon
  <1> QED
    BY <1>5, <1>6, <1>7, <1>8

LEMMA HourCell ==
    ASSUME NEW u \in Instants, NEW v \in Instants, ClWall(u) \div ClHour = ClWall(v) \div ClHour
    PROVE  ClWall(u) \div ClDay = ClWall(v) \div ClDay /\ LocalOf[u].hour = LocalOf[v].hour
  <1>1. ClHour \in Nat \ {0} /\ ClHours \in Nat \ {0} /\ ClDay = ClHours * ClHour
    BY Units
  <1>2. ClWall(u) \in Int /\ ClWall(v) \in Int
    BY LocalFields
  <1>3. \A w \in Int : /\ w \div (ClHours * ClHour) = (w \div ClHour) \div ClHours
                       /\ (w % (ClHours * ClHour)) \div ClHour = (w \div ClHour) % ClHours
    BY <1>1, DivDiv, Zenon
  <1>4. \A w \in Int : w \div ClDay = (w \div ClHour) \div ClHours /\ (w % ClDay) \div ClHour = (w \div ClHour) % ClHours
    BY <1>1, <1>3, Zenon
  <1>5. LocalOf[u].hour = (ClWall(u) \div ClHour) % ClHours /\ LocalOf[v].hour = (ClWall(v) \div ClHour) % ClHours
    BY <1>2, <1>4, LocalFields, Zenon
  <1> QED
    BY <1>2, <1>4, <1>5, Zenon

LEMMA MinuteCell ==
    ASSUME NEW u \in Instants, NEW v \in Instants, ClWall(u) \div ClMinute = ClWall(v) \div ClMinute
    PROVE  ClWall(u) \div ClHour = ClWall(v) \div ClHour /\ LocalOf[u].min = LocalOf[v].min
  <1>1. ClMinute \in Nat \ {0} /\ ClMinutes \in Nat \ {0} /\ ClHour = ClMinutes * ClMinute
    BY Units
  <1>2. ClWall(u) \in Int /\ ClWall(v) \in Int
    BY LocalFields
  <1>3. \A w \in Int : /\ w \div (ClMinutes * ClMinute) = (w \div ClMinute) \div ClMinutes
                       /\ (w % (ClMinutes * ClMinute)) \div ClMinute = (w \div ClMinute) % ClMinutes
    BY <1>1, DivDiv, Zenon
  <1>4. \A w \in Int : w \div ClHour = (w \div ClMinute) \div ClMinutes /\ (w % ClHour) \div ClMinute = (w \div ClMinute) % ClMinutes
    BY <1>1, <1>3, Zenon
  <1>5. LocalOf[u].min = (ClWall(u) \div ClMinute) % ClMinutes /\ LocalOf[v].min = (ClWall(v) \div ClMinute) % ClMinutes
    BY <1>2, <1>4, LocalFields, Zenon
  <1> QED
    BY <1>2, <1>4, <1>5, Zenon

LEMMA FieldTypes ==
    ASSUME NEW u \in Instants
    PROVE  /\ LocalOf[u].year \in Nat /\ LocalOf[u].mon \in 1..ClMonths /\ LocalOf[u].mday \in Int
           /\ LocalOf[u].wday \in Int /\ LocalOf[u].hour \in 0..ClHours - 1
           /\ LocalOf[u].min \in Int /\ LocalOf[u].sec \in Int
  <1> DEFINE w == ClWall(u)
  <1>1. w \in Nat
    BY LocalFields
  <1>2. LocalOf[u].year = w \div ClYear /\ LocalOf[u].mon \in 1..ClMonths
    BY LocalFields, Zenon
  <1>3. w \div ClYear \in Nat
    BY <1>1, Units
  <1>4. LocalOf[u].mday \in Int
    <2>1. DaysBefore[LocalOf[u].mon] \in Nat
      <3>1. LocalOf[u].mon \in 1..ClMonths + 1
        BY <1>2, DaysBeforeSums
      <3> QED
        BY <3>1, DaysBeforeSums
    <2>2. DayOfYear(w) \in Int
      BY <1>1, Units DEF DayOfYear
    <2>3. LocalOf[u].mday = 1 + DayOfYear(w) - DaysBefore[LocalOf[u].mon]
      BY LocalFields, Zenon
    <2> QED
      BY <2>1, <2>2, <2>3
  <1>5. LocalOf[u].hour \in 0..ClHours - 1
    <2>1. ClHour \in Nat \ {0} /\ ClHours \in Nat \ {0} /\ ClDay = ClHours * ClHour /\ w \in Int
      BY <1>1, Units
    <2>2. (w % (ClHours * ClHour)) \div ClHour = (w \div ClHour) % ClHours
      BY <2>1, DivDiv, Zenon
    <2>3. LocalOf[u].hour = (w % ClDay) \div ClHour
      BY LocalFields, Zenon
    <2>4. LocalOf[u].hour = (w \div ClHour) % ClHours
      BY <2>1, <2>2, <2>3, Zenon
    <2>5. w \div ClHour \in Int
      BY <2>1
    <2> HIDE DEF w
    <2> QED
      BY <2>1, <2>4, <2>5, DivMod
  <1>6. LocalOf[u].wday \in Int
    BY <1>1, Units, LocalFields
  <1>7. LocalOf[u].min \in Int
    BY <1>1, Units, LocalFields
  <1>8. LocalOf[u].sec \in Int
    BY <1>1, Units, LocalFields
  <1> QED
    BY <1>2, <1>3, <1>4, <1>5, <1>6, <1>7, <1>8, Zenon

LEMMA YearCell ==
    ASSUME NEW u \in Instants, NEW y \in Int
    PROVE  y <= LocalOf[u].year <=> y * ClYear <= ClWall(u)
  <1> DEFINE w == ClWall(u)
             z == LocalOf[u].year
  <1>1. ClYear \in Nat \ {0} /\ w \in Int
    BY Units, LocalFields
  <1>2. z = w \div ClYear
    BY LocalFields, Zenon
  <1> HIDE DEF w, z
  <1>3. z \in Int /\ ClYear * z <= w /\ w < ClYear * z + ClYear
    BY <1>1, <1>2, DivMod
  <1>4. ASSUME y <= z PROVE y * ClYear <= w
    <2>1. y * ClYear <= ClYear * z
      BY <1>1, <1>3, <1>4
    <2>2. y * ClYear \in Int /\ ClYear * z \in Int
      BY <1>1, <1>3
    <2> QED
      BY <1>1, <1>3, <2>1, <2>2
  <1>5. ASSUME z < y PROVE w < y * ClYear
    <2>1. ClYear * z + ClYear <= y * ClYear
      BY <1>1, <1>3, <1>5
    <2>2. y * ClYear \in Int /\ ClYear * z \in Int
      BY <1>1, <1>3
    <2> QED
      BY <1>1, <1>3, <2>1, <2>2
  <1>6. y * ClYear \in Int
    BY <1>1
  <1> QED
    BY <1>1, <1>3, <1>4, <1>5, <1>6 DEF w, z

\* The midnights.
Midnight(g) == g \in Int /\ g % ClDay = 0

LEMMA MonthMidnight ==
    ASSUME NEW y \in Nat, NEW m \in 1..ClMonths + 1
    PROVE  Midnight(BeginOfMonth(y, m)) /\ BeginOfMonth(y, m) \in Nat
  <1> DEFINE k == y * YearDays + DaysBefore[m]
  <1>1. ClDay \in Nat \ {0} /\ YearDays \in Nat /\ DaysBefore[m] \in Nat
    BY Units, DaysBeforeSums
  <1>2. k \in Nat
    BY <1>1
  <1>3. BeginOfMonth(y, m) = ClDay * k
    <2>1. BeginOfMonth(y, m) = y * (YearDays * ClDay) + DaysBefore[m] * ClDay
      BY Units DEF BeginOfMonth
    <2> QED
      BY <2>1, <1>1
  <1> HIDE DEF k
  <1>4. ClDay * k \in Nat /\ (ClDay * k) % ClDay = 0
    BY <1>1, <1>2
  <1> QED
    BY <1>3, <1>4 DEF Midnight

LEMMA NextYearBegins ==
    ASSUME NEW y \in Nat
    PROVE  /\ BeginOfMonth(y, ClMonths + 1) = BeginOfMonth(y + 1, 1)
           /\ BeginOfMonth(y, 1) = y * ClYear
  <1>1. DaysBefore[ClMonths + 1] * ClDay = ClYear /\ ClYear \in Nat /\ DaysBefore[1] = 0 /\ ClDay \in Nat
    BY Units, DaysBeforeSums DEF YearDays
  <1> QED
    BY <1>1 DEF BeginOfMonth

LEMMA MonthBounds ==
    ASSUME NEW u \in Instants
    PROVE  /\ BeginOfMonth(LocalOf[u].year, LocalOf[u].mon) <= ClWall(u)
           /\ ClWall(u) < BeginOfMonth(LocalOf[u].year, LocalOf[u].mon + 1)
  <1> DEFINE w == ClWall(u)
             y == LocalOf[u].year
             m == LocalOf[u].mon
             day == DayOfYear(w)
             a == DaysBefore[m]
             b == DaysBefore[m + 1]
  <1>1. /\ ClYear \in Nat \ {0} /\ ClDay \in Nat \ {0} /\ w \in Int /\ y = w \div ClYear
        /\ m \in 1..ClMonths /\ a <= day /\ day < b /\ day = (w % ClYear) \div ClDay
    BY Units, LocalFields DEF DayOfYear
  <1>2. a \in Nat /\ b \in Nat
    <2> HIDE DEF m
    <2>1. ClMonths \in Nat /\ m \in 1..ClMonths
      BY <1>1, DaysBeforeSums
    <2>2. m \in 1..ClMonths + 1 /\ m + 1 \in 1..ClMonths + 1
      BY <2>1
    <2> QED
      BY <2>2, DaysBeforeSums
  <1> HIDE DEF w, y, m, day, a, b
  <1> DEFINE r == w % ClYear
  <1>3. w = ClYear * y + r /\ r \in Int /\ y \in Int
    <2>1. ClYear \in Nat \ {0} /\ w \in Int /\ y = w \div ClYear
      BY <1>1
    <2> QED
      BY <2>1, DivMod
  <1>4. day \in Int /\ ClDay * day <= r /\ r < ClDay * day + ClDay
    <2> HIDE DEF r
    <2>1. r \in Int /\ day = r \div ClDay
      BY <1>1, <1>3 DEF r
    <2> QED
      BY <2>1, <1>1, DivMod
  <1> HIDE DEF r
  <1>5. a * ClDay <= ClDay * day
    BY <1>1, <1>2, <1>4
  <1>6. ClDay * day + ClDay <= b * ClDay
    BY <1>1, <1>2, <1>4
  <1>7. y * ClYear = ClYear * y /\ y * ClYear \in Int /\ a * ClDay \in Int /\ b * ClDay \in Int /\ ClDay * day \in Int
    BY <1>1, <1>2, <1>3, <1>4
  <1>8. y * ClYear + a * ClDay <= w /\ w < y * ClYear + b * ClDay
    BY <1>1, <1>3, <1>4, <1>5, <1>6, <1>7
  <1> QED
    BY <1>8 DEF BeginOfMonth, w, y, m, a, b

LEMMA MonthCell ==
    ASSUME NEW u \in Instants, NEW y \in Nat, NEW m \in 1..ClMonths,
           BeginOfMonth(y, m) <= ClWall(u), ClWall(u) < BeginOfMonth(y, m + 1)
    PROVE  LocalOf[u].year = y /\ LocalOf[u].mon = m
  <1> DEFINE w == ClWall(u)
             a == DaysBefore[m]
             b == DaysBefore[m + 1]
             r == w - ClYear * y
             day == DayOfYear(w)
  <1>1. ClYear \in Nat \ {0} /\ ClDay \in Nat \ {0} /\ YearDays \in Nat /\ ClYear = YearDays * ClDay /\ w \in Int
    BY Units, LocalFields
  <1>2. a \in Nat /\ b \in Nat /\ b <= YearDays
    <2>1. m \in 1..ClMonths + 1 /\ m + 1 \in 1..ClMonths + 1 /\ ClMonths + 1 \in 1..ClMonths + 1
      BY DaysBeforeSums
    <2>2. m + 1 = ClMonths + 1 \/ m + 1 < ClMonths + 1
      BY DaysBeforeSums
    <2>3. DaysBefore[m + 1] = YearDays \/ DaysBefore[m + 1] < YearDays
      BY <2>1, <2>2, DaysBeforeOrdered DEF YearDays
    <2>4. DaysBefore[m] \in Nat /\ DaysBefore[m + 1] \in Nat
      BY <2>1, DaysBeforeSums
    <2> QED
      BY <2>3, <2>4, <1>1
  <1>3. y * ClYear + a * ClDay <= w /\ w < y * ClYear + b * ClDay
    BY DEF BeginOfMonth
  <1>4. w \div ClYear = LocalOf[u].year /\ day = (w % ClYear) \div ClDay
    BY LocalFields, Zenon DEF DayOfYear
  <1>5. /\ LocalOf[u].mon \in 1..ClMonths
        /\ DaysBefore[LocalOf[u].mon] <= day /\ day < DaysBefore[LocalOf[u].mon + 1]
    BY LocalFields
  <1> HIDE DEF w, a, b, day
  <1>6. /\ y * ClYear = ClYear * y /\ y * ClYear \in Int /\ a * ClDay \in Nat /\ b * ClDay \in Int
        /\ b * ClDay <= YearDays * ClDay
    BY <1>1, <1>2
  <1>7. ClYear * y <= w /\ w < ClYear * y + ClYear
    BY <1>1, <1>3, <1>6
  <1>8. w \div ClYear = y /\ w % ClYear = r
    <2>1. y \in Int /\ ClYear \in Nat \ {0} /\ w \in Int
      BY <1>1
    <2> QED
      BY <2>1, <1>7, DivOf, Zenon
  <1>9. r \in Int /\ a * ClDay <= r /\ r < b * ClDay
    BY <1>1, <1>3, <1>6
  <1> HIDE DEF r
  <1>10. day = r \div ClDay
    BY <1>4, <1>8, Zenon
  <1>11. day \in Int /\ ClDay * day <= r /\ r < ClDay * day + ClDay
    BY <1>1, <1>9, <1>10, DivMod
  <1>12. a <= day /\ day < b
    <2>1. ASSUME day < a PROVE FALSE
      <3>1. ClDay * day + ClDay <= a * ClDay
        BY <2>1, <1>1, <1>2, <1>11
      <3>2. ClDay * day \in Int
        BY <1>1, <1>11
      <3> QED
        BY <3>1, <3>2, <1>1, <1>6, <1>9, <1>11
    <2>2. ASSUME b <= day PROVE FALSE
      <3>1. b * ClDay <= ClDay * day
        BY <2>2, <1>1, <1>2, <1>11
      <3>2. ClDay * day \in Int
        BY <1>1, <1>11
      <3> QED
        BY <3>1, <3>2, <1>1, <1>6, <1>9, <1>11
    <2> QED
      BY <2>1, <2>2, <1>2, <1>11
  <1>13. LocalOf[u].mon = m
    <2>1. DaysBefore[m] <= day /\ day < DaysBefore[m + 1]
      BY <1>12 DEF a, b
    <2> QED
      BY <2>1, <1>5, <1>11, MonthUnique
  <1> QED
    BY <1>4, <1>8, <1>13

(***************************************************************************)
(* The changes of the clock.                                               *)
(***************************************************************************)
LEMMA Changes ==
    /\ ClDstFrom \in Nat /\ ClDstTo \in Nat /\ ClDstFrom + ClDay <= ClDstTo
    /\ ClDstTo + ClHour <= ClHorizon
    /\ ClDstFrom % ClHour = 0 /\ ClDstTo % ClHour = 0
    /\ ClDstFrom % ClDay \in ClHour..ClDay - 2 * ClHour
    /\ (ClDstTo + ClHour) % ClDay \in ClHour..ClDay - 2 * ClHour
    /\ 3 * ClHour <= ClDay
  <1>1. ClHour \in Nat \ {0} /\ ClDay \in Nat \ {0}
    BY Units
  <1>2. ClDstFrom \in Nat /\ ClDstTo \in Nat /\ ClDstFrom + ClDay <= ClDstTo
    BY CalendarAssumption
  <1>3. \A u \in {ClDstFrom, ClDstTo + ClHour} :
          u \in ClHour..ClHorizon /\ u % ClHour = 0 /\ u % ClDay \in ClHour..ClDay - 2 * ClHour
    BY CalendarAssumption, Zenon
  <1>4. /\ ClDstFrom % ClHour = 0 /\ ClDstFrom % ClDay \in ClHour..ClDay - 2 * ClHour
        /\ ClDstTo + ClHour \in ClHour..ClHorizon /\ (ClDstTo + ClHour) % ClHour = 0
        /\ (ClDstTo + ClHour) % ClDay \in ClHour..ClDay - 2 * ClHour
    BY <1>3, Zenon
  <1>5. ClDstTo % ClHour = 0
    <2>1. ClDstTo + ClHour * 1 = ClDstTo + ClHour /\ ClDstTo \in Int /\ 1 \in Int
      BY <1>1, <1>2
    <2>2. (ClDstTo + ClHour * 1) % ClHour = ClDstTo % ClHour
      BY <1>1, <2>1, DivShift, Zenon
    <2> QED
      BY <1>4, <2>1, <2>2
  <1>6. 3 * ClHour <= ClDay
    <2>1. ClDstFrom % ClDay \in Int
      BY <1>1, <1>2
    <2> QED
      BY <1>1, <1>4, <2>1
  <1> QED
    BY <1>1, <1>2, <1>4, <1>5, <1>6, Units

\* A multiple of d that is greater than another is greater by d.
LEMMA NextMultiple ==
    ASSUME NEW d \in Nat \ {0}, NEW a \in Int, NEW b \in Int, a % d = 0, b % d = 0, a < b
    PROVE  a + d <= b
  <1>1. a = d * (a \div d) /\ b = d * (b \div d) /\ a \div d \in Int /\ b \div d \in Int
    BY DivMod
  <1> DEFINE p == a \div d
             q == b \div d
  <1> HIDE DEF p, q
  <1>2. a = d * p /\ b = d * q /\ p \in Int /\ q \in Int
    BY <1>1 DEF p, q
  <1>3. p < q
    BY <1>2
  <1> QED
    BY <1>2, <1>3

\* No instant after one with the local time of a midnight, or a later one, is before that midnight.
LEMMA MidnightPassed ==
    ASSUME NEW u \in Instants, NEW v \in Instants, NEW g, Midnight(g), u <= v, g <= ClWall(u)
    PROVE  g <= ClWall(v)
  <1>1. ClHour \in Nat \ {0} /\ ClDay \in Nat \ {0} /\ u \in Int /\ v \in Int /\ g \in Int
    BY Units DEF Instants, Midnight
  <1>2. CASE InDst(u) /\ ~InDst(v)
    <2>1. ClWall(u) = u + ClHour /\ ClWall(v) = v
      BY <1>1, <1>2 DEF ClWall
    <2>2. u < ClDstTo /\ ClDstTo <= v /\ ClDstTo \in Nat
      BY <1>1, <1>2, Changes DEF InDst
    <2> DEFINE h == ClDstTo + ClHour
               r == h % ClDay
               k == h - r
    <2>3. h \in Int /\ r \in Int /\ ClHour <= r /\ r < ClDay
      BY <1>1, <2>2, Changes
    <2>4. k % ClDay = 0
      <3> HIDE DEF h
      <3>1. h = ClDay * (h \div ClDay) + r /\ h \div ClDay \in Int
        BY <1>1, <2>3, DivMod
      <3> DEFINE q == h \div ClDay
      <3> HIDE DEF q, r
      <3>2. k = ClDay * q /\ q \in Int
        BY <3>1, <2>3, <1>1 DEF q
      <3> QED
        BY <3>2, <1>1
    <2>5. g <= k
      <3>1. ASSUME k < g PROVE FALSE
        <4> HIDE DEF h, r
        <4>1. k \in Int /\ g % ClDay = 0
          BY <2>3 DEF Midnight
        <4>2. k + ClDay <= g
          <5> HIDE DEF k
          <5> QED
            BY <1>1, <4>1, <2>4, <3>1, NextMultiple
        <4>3. g < h
          BY <1>1, <2>1, <2>2 DEF h
        <4> QED
          BY <4>2, <4>3, <2>3, <1>1
      <3> HIDE DEF h, r
      <3> QED
        BY <3>1, <2>3, <1>1
    <2> HIDE DEF r
    <2> QED
      BY <1>1, <2>1, <2>2, <2>3, <2>5
  <1>3. CASE ~(InDst(u) /\ ~InDst(v))
    <2>1. CASE InDst(u) /\ InDst(v)
      BY <2>1, <1>1 DEF ClWall
    <2>2. CASE ~InDst(u) /\ InDst(v)
      BY <2>2, <1>1 DEF ClWall
    <2>3. CASE ~InDst(u) /\ ~InDst(v)
      BY <2>3, <1>1 DEF ClWall
    <2> QED
      BY <1>3, <2>1, <2>2, <2>3
  <1> QED
    BY <1>2, <1>3

\* The clock is put forward two hours before a midnight at least, and back an hour of the day after it.
LEMMA ChangesAndMidnight ==
    ASSUME NEW g, Midnight(g)
    PROVE  /\ ClDstFrom <= g => ClDstFrom <= g - 2 * ClHour
           /\ g < ClDstTo + ClHour => g <= ClDstTo
  <1>1. ClHour \in Nat \ {0} /\ ClDay \in Nat \ {0} /\ ClDstFrom \in Nat /\ ClDstTo \in Nat /\ g \in Int /\ g % ClDay = 0
    BY Units, Changes DEF Midnight
  <1>2. ASSUME NEW h \in Int, h % ClDay \in ClHour..ClDay - 2 * ClHour
        PROVE  (h <= g => h <= g - 2 * ClHour) /\ (g < h => g <= h - ClHour)
    <2> DEFINE q == h \div ClDay
               r == h % ClDay
               k == ClDay * q
    <2>1. h = k + r /\ q \in Int /\ r \in Int /\ ClHour <= r /\ r <= ClDay - 2 * ClHour /\ k \in Int
      BY <1>1, <1>2, DivMod
    <2>2. k % ClDay = 0
      <3> HIDE DEF q
      <3> QED
        BY <1>1, <2>1
    <2> HIDE DEF q, r, k
    <2>3. k < g => k + ClDay <= g
      BY <1>1, <2>1, <2>2, NextMultiple
    <2>4. h <= g => k < g
      BY <1>1, <2>1
    <2> QED
      BY <1>1, <2>1, <2>3, <2>4
  <1>3. ClDstFrom \in Int /\ ClDstFrom % ClDay \in ClHour..ClDay - 2 * ClHour
    BY Changes
  <1>4. ClDstTo + ClHour \in Int /\ (ClDstTo + ClHour) % ClDay \in ClHour..ClDay - 2 * ClHour
    BY <1>1, Changes
  <1>5. ClDstFrom <= g => ClDstFrom <= g - 2 * ClHour
    BY <1>2, <1>3
  <1>6. g < ClDstTo + ClHour => g <= (ClDstTo + ClHour) - ClHour
    BY <1>2, <1>4, Zenon
  <1> QED
    BY <1>1, <1>5, <1>6

\* An instant that is earlier than the first one of a midnight.
LEMMA BeforeMidnight ==
    ASSUME NEW u \in Instants, NEW v \in Instants, NEW g, Midnight(g), ClWall(u - 1) < g, v < u
    PROVE  ClWall(v) < g
  <1>1. u \in Int /\ v \in Int /\ g \in Int /\ u - 1 \in Instants /\ v <= u - 1
    BY Units DEF Instants, Midnight
  <1>2. ClWall(v) \in Int /\ ClWall(u - 1) \in Int
    BY <1>1, LocalFields
  <1>3. ~(g <= ClWall(v))
    BY <1>1, <1>2, MidnightPassed
  <1> QED
    BY <1>1, <1>2, <1>3

(***************************************************************************)
(* mktime.                                                                 *)
(***************************************************************************)
LEMMA MkTimeIs ==
    ASSUME NEW w \in Int, NEW u
    PROVE  u \in MkTime(w) <=> u \in Instants /\ ClWall(u) = w
  <1>1. u \in MkTime(w) <=> u \in {w, w - ClHour} /\ u \in Instants /\ LocalOf[u].wall = w
    BY DEF MkTime, LocalOf, Instants
  <1>2. ASSUME u \in Instants PROVE LocalOf[u].wall = ClWall(u)
    BY <1>2, LocalFields
  <1>3. ASSUME u \in Instants, ClWall(u) = w PROVE u \in {w, w - ClHour}
    <2>1. u \in Int /\ ClHour \in Int
      BY <1>3, Units DEF Instants
    <2> QED
      BY <1>3, <2>1 DEF ClWall
  <1> QED
    BY <1>1, <1>2, <1>3

LEMMA MkTimeOne ==
    ASSUME NEW w \in Int, NEW u \in MkTime(w), NEW v \in MkTime(w), ~(Cardinality(MkTime(w)) > 1)
    PROVE  u = v
  <1> SUFFICES ASSUME u # v PROVE FALSE
    OBVIOUS
  <1> DEFINE S == MkTime(w)
  <1>1. IsFiniteSet(S)
    <2>1. S \subseteq {w, w - ClHour}
      BY DEF MkTime
    <2>2. IsFiniteSet({w, w - ClHour})
      <3>1. IsFiniteSet({w}) /\ {w, w - ClHour} = {w} \cup {w - ClHour}
        BY FS_Singleton
      <3> QED
        BY <3>1, FS_AddElement
    <2> QED
      BY <2>1, <2>2, FS_Subset
  <1> HIDE DEF S
  <1>2. u \in S /\ v \in S \ {u}
    BY DEF S
  <1>3. IsFiniteSet(S \ {u}) /\ Cardinality(S \ {u}) = Cardinality(S) - 1
    BY <1>1, <1>2, FS_RemoveElement
  <1>4. Cardinality(S \ {u}) # 0
    BY <1>2, <1>3, FS_EmptySet
  <1>5. Cardinality(S) \in Nat /\ Cardinality(S \ {u}) \in Nat
    BY <1>1, <1>3, FS_CardinalityType
  <1>6. ~(Cardinality(S) > 1)
    BY DEF S
  <1> QED
    BY <1>3, <1>4, <1>5, <1>6

\* A midnight that does not come twice has nothing of its day before it.
LEMMA MidnightOnce ==
    ASSUME NEW g, Midnight(g), NEW u \in MkTime(g), ~(Cardinality(MkTime(g)) > 1), u # 0
    PROVE  ClWall(u - 1) < g
  <1>1. ClHour \in Nat \ {0} /\ ClDay \in Nat \ {0} /\ g \in Int /\ 3 * ClHour <= ClDay
    BY Units, Changes DEF Midnight
  <1>2. u \in Instants /\ ClWall(u) = g /\ u \in Int
    BY <1>1, MkTimeIs DEF Instants
  <1>3. ClDstFrom \in Nat /\ ClDstTo \in Nat /\ ClDstFrom + ClDay <= ClDstTo
    BY Changes
  <1>4. CASE InDst(u)
    BY <1>1, <1>2, <1>4 DEF ClWall
  <1>5. CASE ~InDst(u) /\ ~InDst(u - 1)
    BY <1>1, <1>2, <1>5 DEF ClWall
  <1>6. CASE ~InDst(u) /\ InDst(u - 1)
    <2>1. u = g /\ u = ClDstTo
      BY <1>1, <1>2, <1>3, <1>6 DEF ClWall, InDst
    <2>2. u - ClHour \in Instants
      <3>1. ClHorizon \in Nat
        BY Units
      <3> QED
        BY <1>1, <1>2, <1>3, <2>1, <3>1 DEF Instants
    <2>6. InDst(u - ClHour)
      BY <1>1, <1>2, <1>3, <2>1 DEF InDst
    <2>3. ClWall(u - ClHour) = g
      BY <1>1, <2>1, <2>6 DEF ClWall
    <2>4. u - ClHour \in MkTime(g)
      BY <1>1, <2>2, <2>3, MkTimeIs
    <2>5. u = u - ClHour
      BY <1>1, <2>4, MkTimeOne
    <2> QED
      BY <1>1, <1>2, <2>5
  <1> QED
    BY <1>4, <1>5, <1>6

(***************************************************************************)
(* The clock does not change within a unit of which ClHour is a multiple.  *)
(***************************************************************************)
UnitOfHour(d) == d \in Nat \ {0} /\ \E n \in Nat \ {0} : ClHour = n * d

LEMMA HourHasUnits == UnitOfHour(1) /\ UnitOfHour(ClMinute) /\ UnitOfHour(ClHour)
  <1>1. ClHour \in Nat \ {0} /\ ClMinutes \in Nat \ {0} /\ ClMinute \in Nat \ {0} /\ ClHour = ClMinutes * ClMinute
    BY Units
  <1>2. ClHour = ClHour * 1 /\ ClHour = 1 * ClHour
    BY <1>1
  <1>3. UnitOfHour(1)
    BY <1>1, <1>2 DEF UnitOfHour
  <1>4. UnitOfHour(ClMinute)
    BY <1>1 DEF UnitOfHour
  <1>5. UnitOfHour(ClHour)
    BY <1>1, <1>2 DEF UnitOfHour
  <1> QED
    BY <1>3, <1>4, <1>5

LEMMA SameUnit ==
    ASSUME NEW d, UnitOfHour(d), NEW u \in Instants, NEW v \in Instants,
           u - (u % d) <= v, v < u - (u % d) + d
    PROVE  /\ InDst(u) <=> InDst(v)
           /\ ClWall(u) - u = ClWall(v) - v
           /\ ClWall(u) \div d = ClWall(v) \div d
           /\ ClWall(u) % d = u % d
  <1> DEFINE a == u - (u % d)
             q == u \div d
             r == u % d
  <1>1. PICK n \in Nat \ {0} : ClHour = n * d
    BY DEF UnitOfHour
  <1>2. d \in Nat \ {0} /\ u \in Int /\ v \in Int /\ ClHour \in Nat
    BY Units DEF UnitOfHour, Instants
  <1>3. u = d * q + r /\ r \in 0..d - 1 /\ q \in Int
    BY <1>2, DivMod
  <1> HIDE DEF q, r
  <1>4. a = d * q
    BY <1>2, <1>3 DEF r
  <1>5. a % d = 0 /\ a \in Int
    BY <1>2, <1>3, <1>4
  <1>6. a <= u /\ u < a + d /\ a <= v /\ v < a + d
    BY <1>2, <1>3 DEF r
  <1> HIDE DEF a
  <1>7. ASSUME NEW x \in Nat, x % ClHour = 0
        PROVE  x <= u <=> x <= v
    <2>3. x \in Int
      OBVIOUS
    <2>1. x % d = 0
      <3>1. (x % (n * d)) % d = x % d
        BY <1>2, <2>3, DivDiv, Zenon
      <3>2. 0 % d = 0
        BY <1>2
      <3> QED
        BY <1>1, <1>7, <3>1, <3>2
    <2>2. a < x => a + d <= x
      BY <1>2, <1>5, <2>3, <2>1, NextMultiple, Zenon
    <2> QED
      BY <1>2, <1>5, <1>6, <2>2
  <1>8. InDst(u) <=> InDst(v)
    BY <1>2, <1>7, Changes DEF InDst
  <1>9. ClWall(u) - u = ClWall(v) - v
    <2>1. CASE InDst(u)
      BY <2>1, <1>2, <1>8 DEF ClWall
    <2>2. CASE ~InDst(u)
      BY <2>2, <1>2, <1>8 DEF ClWall
    <2> QED
      BY <2>1, <2>2
  <1>10. v \div d = q /\ u \div d = q /\ u % d = r
    <2>1. d * q <= v /\ v < d * q + d
      BY <1>4, <1>6
    <2>2. v \div d = q
      BY <1>2, <1>3, <2>1, DivOf
    <2> QED
      BY <2>2 DEF q, r
  <1>11. PICK k \in Int : \A x \in {u, v} : ClWall(x) = x + d * k
    <2>1. ClHour = d * n /\ 0 = d * 0 /\ d * n \in Int
      BY <1>1, <1>2
    <2>2. CASE InDst(u)
      <3>1. ClWall(u) = u + d * n /\ ClWall(v) = v + d * n
        BY <2>1, <2>2, <1>2, <1>8 DEF ClWall
      <3> QED
        BY <3>1
    <2>3. CASE ~InDst(u)
      <3>1. ClWall(u) = u + d * 0 /\ ClWall(v) = v + d * 0
        BY <2>1, <2>3, <1>2, <1>8 DEF ClWall
      <3> QED
        BY <3>1
    <2> QED
      BY <2>2, <2>3
  <1>12. (u + d * k) % d = u % d /\ (u + d * k) \div d = (u \div d) + k /\ (v + d * k) \div d = (v \div d) + k
    BY <1>2, DivShift, Zenon
  <1>13. ClWall(u) = u + d * k /\ ClWall(v) = v + d * k
    BY <1>11
  <1>14. ClWall(u) \div d = ClWall(v) \div d
    BY <1>10, <1>12, <1>13, Zenon
  <1>15. ClWall(u) % d = u % d
    BY <1>12, <1>13, Zenon
  <1> QED
    BY <1>8, <1>9, <1>14, <1>15

\* What mktime makes of the beginning of the minute, or of the hour, of an instant.
LEMMA UnitBegins ==
    ASSUME NEW d, UnitOfHour(d), NEW u \in Instants
    PROVE  /\ u - (u % d) \in Instants /\ u - (u % d) <= u /\ u < u - (u % d) + d
           /\ u - (u % d) \in MkTime(ClWall(u) - (ClWall(u) % d))
           /\ ClWall(u) - (ClWall(u) % d) \in Int
  <1> DEFINE a == u - (u % d)
             w == ClWall(u)
  <1>1. d \in Nat \ {0} /\ u \in Nat /\ w \in Nat /\ ClHour \in Nat
    BY Units, LocalFields DEF UnitOfHour, Instants
  <1>2. u % d \in 0..d - 1 /\ u = d * (u \div d) + (u % d) /\ u \div d \in Nat
    BY <1>1
  <1>3. a \in Nat /\ a <= u /\ u < a + d
    <2>1. d * (u \div d) \in Nat
      BY <1>1, <1>2
    <2> DEFINE r == u % d
               k == d * (u \div d)
    <2>2. r \in 0..d - 1 /\ u = k + r /\ k \in Nat
      BY <1>2, <2>1
    <2> HIDE DEF r, k
    <2>3. u - r \in Nat /\ u - r <= u /\ u < u - r + d
      BY <2>2, <1>1
    <2> QED
      BY <2>3 DEF r
  <1>4. a \in Instants
    BY <1>3, <1>1, Units DEF Instants
  <1> HIDE DEF a
  <1>5. u - (u % d) <= a /\ a < u - (u % d) + d
    BY <1>1, <1>3 DEF a
  <1>6. w - u = ClWall(a) - a /\ w % d = u % d
    BY <1>4, <1>5, SameUnit
  <1>7. w % d \in Int /\ ClWall(a) \in Int
    BY <1>1, <1>4, LocalFields
  <1>8. ClWall(a) = w - (w % d)
    <2> HIDE DEF w
    <2> DEFINE r == u % d
    <2>1. a = u - r /\ w % d = r /\ r \in Int /\ w \in Int /\ a \in Int
      BY <1>1, <1>2, <1>3, <1>6 DEF a
    <2> HIDE DEF r
    <2> QED
      BY <2>1, <1>1, <1>6, <1>7
  <1>9. w - (w % d) \in Int
    BY <1>1, <1>7
  <1>10. a \in MkTime(w - (w % d))
    BY <1>4, <1>8, <1>9, MkTimeIs
  <1> QED
    BY <1>3, <1>4, <1>9, <1>10 DEF a

(***************************************************************************)
(* The next day: a day after a midnight it is midnight, an hour more or an *)
(* hour less, and what is added finds the midnight, the first one of the   *)
(* two if there are two.                                                   *)
(***************************************************************************)
HourOf(w) == (w % ClDay) \div ClHour

LEMMA MidnightHours ==
    ASSUME NEW g, Midnight(g)
    PROVE  HourOf(g) = 0 /\ HourOf(g + ClHour) = 1 /\ HourOf(g - ClHour) = ClHours - 1
  <1>1. /\ ClHour \in Nat \ {0} /\ ClHours \in Nat \ {0} /\ ClDay \in Nat \ {0} /\ ClDay = ClHours * ClHour
        /\ 3 * ClHour <= ClDay
    BY Units, Changes
  <1> DEFINE q == g \div ClDay
  <1>2. g = ClDay * q /\ q \in Int /\ g \in Int
    <2>1. g \in Int /\ g % ClDay = 0
      BY DEF Midnight
    <2>2. g = ClDay * (g \div ClDay) + (g % ClDay) /\ g \div ClDay \in Int
      <3>1. ClDay \in Nat \ {0}
        BY <1>1
      <3> QED
        BY <2>1, <3>1, DivMod
    <2> QED
      BY <1>1, <2>1, <2>2
  <1> HIDE DEF q
  <1>3. HourOf(g) = 0
    <2>1. 0 \div ClHour = 0 /\ g % ClDay = 0
      BY <1>1 DEF Midnight
    <2> QED
      BY <2>1 DEF HourOf
  <1>4. HourOf(g + ClHour) = 1
    <2>1. ClDay * q <= g + ClHour /\ g + ClHour < ClDay * q + ClDay /\ g + ClHour \in Int
      BY <1>1, <1>2
    <2>2. (g + ClHour) % ClDay = (g + ClHour) - ClDay * q
      BY <1>1, <1>2, <2>1, DivOf
    <2>3. (g + ClHour) % ClDay = ClHour
      <3>1. ClDay * q \in Int
        BY <1>1, <1>2
      <3> QED
        BY <1>1, <1>2, <2>2, <3>1
    <2>4. ClHour \div ClHour = 1
      BY <1>1
    <2> QED
      BY <2>3, <2>4 DEF HourOf
  <1>5. HourOf(g - ClHour) = ClHours - 1
    <2> DEFINE p == q - 1
    <2>1. p \in Int /\ ClDay * p = g - ClDay /\ g - ClHour \in Int
      BY <1>1, <1>2
    <2> HIDE DEF p
    <2>2. ClDay * p <= g - ClHour /\ g - ClHour < ClDay * p + ClDay
      BY <1>1, <1>2, <2>1
    <2>3. (g - ClHour) % ClDay = (g - ClHour) - ClDay * p
      BY <1>1, <2>1, <2>2, DivOf
    <2>4. (g - ClHour) % ClDay = ClDay - ClHour
      BY <1>1, <1>2, <2>1, <2>3
    <2>5. (ClDay - ClHour) \div ClHour = ClHours - 1
      <3> DEFINE x == ClDay - ClHour
                 k == ClHours - 1
      <3>1. x = ClHour * k /\ x \in Int /\ k \in Int
        BY <1>1
      <3> HIDE DEF x, k
      <3>2. ClHour * k <= x /\ x < ClHour * k + ClHour
        BY <1>1, <3>1
      <3>3. x \div ClHour = k
        BY <1>1, <3>1, <3>2, DivOf
      <3> QED
        BY <3>3 DEF x, k
    <2> QED
      BY <2>4, <2>5 DEF HourOf
  <1> QED
    BY <1>3, <1>4, <1>5

\* The instant that the search goes on with: updateNextCalendarExpirationDateTime adds or takes off an hour.
DayBegins(u, d) ==
    LET t == u + ClDay
        h == LocalOf[t].hour
    IN /\ h \in {0, 1, ClHours - 1}
       /\ h = 0 => d = t
       /\ h = 1 => d = t - ClHour
       /\ h = ClHours - 1 => d = t + ClHour

LEMMA HoursDiffer == 2 < ClHours /\ ClHours \in Nat
  <1>1. ClHour \in Nat \ {0} /\ ClHours \in Nat \ {0} /\ ClDay = ClHours * ClHour /\ 3 * ClHour <= ClDay
    BY Units, Changes
  <1> QED
    BY <1>1

LEMMA NextDayRight ==
    ASSUME NEW f, Midnight(f), f < ClHorizon, NEW u \in MkTime(f)
    PROVE  \E d \in Instants : /\ DayBegins(u, d) /\ u < d /\ d <= f + ClDay
                               /\ ClWall(d) = f + ClDay /\ ClWall(d - 1) < f + ClDay
  <1> DEFINE g == f + ClDay
             t == u + ClDay
  <1>1. /\ ClHour \in Nat \ {0} /\ ClHours \in Nat /\ 2 < ClHours /\ ClDay \in Nat \ {0} /\ 3 * ClHour <= ClDay
        /\ f \in Int /\ ClHorizon \in Nat
    BY Units, Changes, HoursDiffer DEF Midnight
  <1>2. u \in Instants /\ ClWall(u) = f /\ u \in Nat
    BY <1>1, MkTimeIs DEF Instants
  <1>3. ClDstFrom \in Nat /\ ClDstTo \in Nat /\ ClDstFrom + ClDay <= ClDstTo
    BY Changes
  <1>4. Midnight(g) /\ g \in Int
    <2>1. g \in Int /\ g = f + ClDay * 1 /\ 1 \in Int
      BY <1>1
    <2>2. (f + ClDay * 1) % ClDay = f % ClDay
      BY <1>1, <2>1, DivShift, Zenon
    <2> QED
      BY <2>1, <2>2 DEF Midnight
  <1>5. u = f \/ u = f - ClHour
    BY <1>1, <1>2 DEF ClWall
  <1>6. t \in Instants /\ t - ClHour \in Instants /\ t + ClHour \in Instants /\ t \in Int /\ u < t - ClHour
    BY <1>1, <1>2, <1>5 DEF Instants
  <1>7. LocalOf[t].hour = HourOf(ClWall(t))
    BY <1>6, LocalFields DEF HourOf
  <1>8. HourOf(g) = 0 /\ HourOf(g + ClHour) = 1 /\ HourOf(g - ClHour) = ClHours - 1
    BY <1>4, MidnightHours
  <1>9. ClDstFrom <= g => ClDstFrom <= g - 2 * ClHour
    BY <1>4, ChangesAndMidnight
  <1> HIDE DEF g, t
  <1>10. t = u + ClDay /\ g = f + ClDay
    BY DEF t, g
  <1>11. CASE ~InDst(u) /\ InDst(t)
    <2>1. u = f /\ t = g /\ ClWall(t) = g + ClHour
      BY <1>1, <1>2, <1>6, <1>10, <1>11 DEF ClWall
    <2>2. ClDstFrom <= t - ClHour - 1 /\ t - ClHour < ClDstTo
      BY <1>1, <1>2, <1>3, <1>4, <1>9, <1>10, <1>11, <2>1 DEF InDst
    <2>3. ClWall(t - ClHour) = g /\ ClWall(t - ClHour - 1) = g - 1
      BY <1>1, <1>3, <1>6, <2>1, <2>2 DEF ClWall, InDst
    <2>4. DayBegins(u, t - ClHour)
      BY <1>1, <1>7, <1>8, <1>10, <2>1 DEF DayBegins
    <2>5. t - ClHour - 1 = (t - ClHour) - 1 /\ g - 1 < g /\ t - ClHour <= g
      BY <1>1, <1>4, <2>1
    <2> QED
      BY <1>6, <1>10, <2>3, <2>4, <2>5
  <1>12. CASE InDst(u) /\ ~InDst(t)
    <2>1. u = f - ClHour /\ t = g - ClHour /\ ClWall(t) = g - ClHour
      BY <1>1, <1>2, <1>6, <1>10, <1>12 DEF ClWall
    <2>2. ClDstTo <= t
      BY <1>1, <1>2, <1>3, <1>10, <1>12 DEF InDst
    <2>6. ~InDst(t + ClHour) /\ ~InDst((t + ClHour) - 1)
      BY <1>1, <1>3, <1>6, <2>2 DEF InDst
    <2>3. ClWall(t + ClHour) = g /\ ClWall((t + ClHour) - 1) = g - 1
      BY <1>1, <1>4, <1>6, <2>1, <2>6 DEF ClWall
    <2>4. DayBegins(u, t + ClHour)
      BY <1>1, <1>7, <1>8, <1>10, <2>1 DEF DayBegins
    <2>5. g - 1 < g /\ t + ClHour <= g /\ u < t + ClHour
      BY <1>1, <1>2, <1>4, <1>6, <2>1
    <2> DEFINE d == t + ClHour
    <2>7. /\ d \in Instants /\ DayBegins(u, d) /\ u < d /\ d <= f + ClDay
          /\ ClWall(d) = f + ClDay /\ ClWall(d - 1) < f + ClDay
      BY <1>6, <1>10, <2>3, <2>4, <2>5
    <2> QED
      BY <2>7
  <1>13. CASE InDst(u) /\ InDst(t)
    <2>1. t = g - ClHour /\ ClWall(t) = g
      BY <1>1, <1>2, <1>6, <1>10, <1>13 DEF ClWall
    <2>2. InDst(t - 1)
      BY <1>1, <1>2, <1>3, <1>10, <1>13 DEF InDst
    <2>3. ClWall(t - 1) = g - 1
      BY <1>1, <1>4, <1>6, <2>1, <2>2 DEF ClWall
    <2>4. DayBegins(u, t)
      BY <1>1, <1>7, <1>8, <1>10, <2>1 DEF DayBegins
    <2>5. g - 1 < g /\ t <= g /\ u < t
      BY <1>1, <1>2, <1>4, <1>6, <2>1
    <2> QED
      BY <1>6, <1>10, <2>1, <2>3, <2>4, <2>5
  <1>14. CASE ~InDst(u) /\ ~InDst(t)
    <2>1. u = f /\ t = g /\ ClWall(t) = g
      BY <1>1, <1>2, <1>6, <1>10, <1>14 DEF ClWall
    <2>2. ~InDst(t - 1)
      BY <1>1, <1>2, <1>3, <1>10, <1>14 DEF InDst
    <2>3. ClWall(t - 1) = g - 1
      BY <1>1, <1>4, <1>6, <2>1, <2>2 DEF ClWall
    <2>4. DayBegins(u, t)
      BY <1>1, <1>7, <1>8, <1>10, <2>1 DEF DayBegins
    <2>5. g - 1 < g /\ t <= g /\ u < t
      BY <1>1, <1>2, <1>4, <1>6, <2>1
    <2> QED
      BY <1>6, <1>10, <2>1, <2>3, <2>4, <2>5
  <1> QED
    BY <1>11, <1>12, <1>13, <1>14

(***************************************************************************)
(* The jumps.  What the search passes over has the field for which the     *)
(* date was refused.                                                       *)
(***************************************************************************)
LEMMA InYears ==
    ASSUME NEW u \in Instants, LocalOf[u].year < ClYears
    PROVE  ClWall(u) < ClHorizon /\ u < ClHorizon
  <1>1. ClYears \in Int /\ ClHorizon = ClYears * ClYear /\ ClHorizon \in Nat /\ ClHour \in Nat
    BY Units
  <1>2. LocalOf[u].year \in Nat /\ ClWall(u) \in Nat /\ u \in Nat
    BY FieldTypes, LocalFields DEF Instants
  <1>3. ClYears <= LocalOf[u].year <=> ClYears * ClYear <= ClWall(u)
    BY <1>1, YearCell
  <1>4. ClWall(u) < ClHorizon
    BY <1>1, <1>2, <1>3
  <1>5. u <= ClWall(u)
    BY <1>1, <1>2 DEF ClWall
  <1> QED
    BY <1>1, <1>2, <1>4, <1>5

LEMMA MkTimeBefore ==
    ASSUME NEW w \in Int, NEW u \in MkTime(w), w < ClHorizon
    PROVE  u \in Instants /\ u \in Nat /\ u <= w /\ u < ClHorizon
  <1>1. u \in Instants /\ ClWall(u) = w /\ ClHour \in Nat /\ ClHorizon \in Nat
    BY MkTimeIs, Units
  <1>2. u \in Nat
    BY <1>1 DEF Instants
  <1>3. u <= w
    BY <1>1, <1>2 DEF ClWall
  <1> QED
    BY <1>1, <1>2, <1>3

LEMMA SecondJump ==
    ASSUME NEW u \in Instants, LocalOf[u].year < ClYears, NEW x \in MkTime(ClWall(u))
    PROVE  x + 1 \in Instants /\ (~(Cardinality(MkTime(ClWall(u))) > 1) => x = u)
  <1>1. ClWall(u) \in Int /\ ClWall(u) < ClHorizon
    BY InYears, LocalFields
  <1>2. x \in Nat /\ x < ClHorizon /\ ClHorizon \in Nat /\ ClDay \in Nat
    BY <1>1, MkTimeBefore, Units
  <1>3. x + 1 \in Instants
    BY <1>2 DEF Instants
  <1>4. u \in MkTime(ClWall(u))
    BY <1>1, MkTimeIs
  <1> QED
    BY <1>1, <1>3, <1>4, MkTimeOne

LEMMA UnitJump ==
    ASSUME NEW d, UnitOfHour(d), NEW u \in Instants, LocalOf[u].year < ClYears,
           NEW x \in MkTime(ClWall(u) - (ClWall(u) % d))
    PROVE  /\ x \in Nat /\ x < ClHorizon
           /\ ~(Cardinality(MkTime(ClWall(u) - (ClWall(u) % d))) > 1) =>
                x = u - (u % d) /\ x <= u /\ u < x + d
  <1> DEFINE f == ClWall(u) - (ClWall(u) % d)
  <1>1. ClWall(u) \in Nat /\ ClWall(u) < ClHorizon /\ d \in Nat \ {0} /\ ClHorizon \in Nat
    BY InYears, LocalFields, Units DEF UnitOfHour
  <1>2. f \in Int /\ f < ClHorizon
    <2>1. ClWall(u) % d \in Nat
      BY <1>1
    <2> QED
      BY <1>1, <2>1
  <1>3. u - (u % d) \in MkTime(f) /\ u - (u % d) <= u /\ u < u - (u % d) + d
    BY UnitBegins
  <1> HIDE DEF f
  <1>4. x \in MkTime(f)
    BY DEF f
  <1>5. x \in Nat /\ x < ClHorizon
    BY <1>2, <1>4, MkTimeBefore
  <1>6. ASSUME ~(Cardinality(MkTime(f)) > 1) PROVE x = u - (u % d)
    BY <1>2, <1>3, <1>4, <1>6, MkTimeOne
  <1> QED
    BY <1>3, <1>5, <1>6 DEF f

LEMMA MinuteJump ==
    ASSUME NEW u \in Instants, LocalOf[u].year < ClYears, NEW x \in MkTime(ClWall(u) - (ClWall(u) % ClMinute))
    PROVE  /\ x + ClMinute \in Instants
           /\ ~(Cardinality(MkTime(ClWall(u) - (ClWall(u) % ClMinute))) > 1) =>
                /\ u < x + ClMinute
                /\ \A v \in u..x + ClMinute - 1 : v \in Instants /\ LocalOf[v].min = LocalOf[u].min
  <1>1. /\ ClMinute \in Nat \ {0} /\ ClMinutes \in Nat \ {0} /\ ClHours \in Nat \ {0} /\ ClHour \in Nat \ {0}
        /\ ClHour = ClMinutes * ClMinute /\ ClDay \in Nat /\ ClHorizon \in Nat /\ 3 * ClHour <= ClDay
    BY Units, Changes
  <1>2. UnitOfHour(ClMinute)
    BY HourHasUnits
  <1>3. x \in Nat /\ x < ClHorizon
    BY <1>2, UnitJump
  <1>4. ClMinute <= ClHour
    BY <1>1
  <1>5. x + ClMinute \in Instants
    BY <1>1, <1>3, <1>4 DEF Instants
  <1>6. ASSUME ~(Cardinality(MkTime(ClWall(u) - (ClWall(u) % ClMinute))) > 1)
        PROVE  /\ u < x + ClMinute
               /\ \A v \in u..x + ClMinute - 1 : v \in Instants /\ LocalOf[v].min = LocalOf[u].min
    <2>1. x = u - (u % ClMinute) /\ x <= u /\ u < x + ClMinute
      BY <1>2, <1>6, UnitJump
    <2>2. ASSUME NEW v \in u..x + ClMinute - 1 PROVE v \in Instants /\ LocalOf[v].min = LocalOf[u].min
      <3>1. v \in Instants /\ x <= v /\ v < x + ClMinute
        BY <1>1, <1>3, <1>5, <2>1, <2>2 DEF Instants
      <3>2. ClWall(u) \div ClMinute = ClWall(v) \div ClMinute
        BY <1>2, <2>1, <3>1, SameUnit
      <3> QED
        BY <3>1, <3>2, MinuteCell
    <2> QED
      BY <2>1, <2>2
  <1> QED
    BY <1>5, <1>6

\* The hour that comes again is passed over as well.
LEMMA HourJump ==
    ASSUME NEW u \in Instants, LocalOf[u].year < ClYears, NEW x \in MkTime(ClWall(u) - (ClWall(u) % ClHour)),
           NEW d, d = IF LocalOf[x + ClHour].hour = LocalOf[u].hour THEN x + 2 * ClHour ELSE x + ClHour
    PROVE  /\ d \in Instants
           /\ ~(Cardinality(MkTime(ClWall(u) - (ClWall(u) % ClHour))) > 1) =>
                /\ u < d
                /\ \A v \in u..d - 1 : v \in Instants /\ LocalOf[v].hour = LocalOf[u].hour
  <1>1. ClHour \in Nat \ {0} /\ ClDay \in Nat /\ ClHorizon \in Nat /\ 3 * ClHour <= ClDay
    BY Units, Changes
  <1>2. UnitOfHour(ClHour)
    BY HourHasUnits
  <1>3. x \in Nat /\ x < ClHorizon
    BY <1>2, UnitJump
  <1>4. x + ClHour \in Instants /\ x + 2 * ClHour \in Instants
    BY <1>1, <1>3 DEF Instants
  <1>5. d \in Instants
    BY <1>4
  <1>6. ASSUME ~(Cardinality(MkTime(ClWall(u) - (ClWall(u) % ClHour))) > 1)
        PROVE  /\ u < d
               /\ \A v \in u..d - 1 : v \in Instants /\ LocalOf[v].hour = LocalOf[u].hour
    <2>1. x = u - (u % ClHour) /\ x <= u /\ u < x + ClHour /\ u \in Nat
      BY <1>2, <1>6, UnitJump DEF Instants
    <2>2. ASSUME NEW v \in Instants, x <= v, v < x + ClHour PROVE LocalOf[v].hour = LocalOf[u].hour
      <3>1. ClWall(u) \div ClHour = ClWall(v) \div ClHour
        BY <1>2, <2>1, <2>2, SameUnit
      <3> QED
        BY <3>1, HourCell
    <2>3. CASE LocalOf[x + ClHour].hour # LocalOf[u].hour
      <3>1. d = x + ClHour
        BY <2>3
      <3>2. \A v \in u..d - 1 : v \in Instants /\ x <= v /\ v < x + ClHour
        BY <1>1, <1>3, <1>5, <2>1, <3>1 DEF Instants
      <3> QED
        BY <1>1, <1>3, <2>1, <2>2, <3>1, <3>2
    <2>4. CASE LocalOf[x + ClHour].hour = LocalOf[u].hour
      <3> DEFINE y == x + ClHour
      <3>1. d = x + 2 * ClHour
        BY <2>4
      <3>2. y % ClHour = 0
        <4>1. x % ClHour = 0
          <5> DEFINE q == u \div ClHour
                     r == u % ClHour
          <5>1. u = ClHour * q + r /\ q \in Int /\ r \in Int
            <6>1. u \in Int /\ ClHour \in Nat \ {0}
              BY <1>1, <2>1
            <6>2. u = ClHour * (u \div ClHour) + (u % ClHour) /\ u \div ClHour \in Int
              BY <6>1, DivMod
            <6>3. u % ClHour \in Int
              BY <6>1
            <6> QED
              BY <6>2, <6>3
          <5> HIDE DEF q, r
          <5>2. x = ClHour * q
            BY <1>1, <2>1, <5>1 DEF r
          <5>3. 0 \in Int /\ q \in Int /\ ClHour \in Nat \ {0}
            BY <1>1, <5>1
          <5>4. (0 + ClHour * q) % ClHour = 0 % ClHour
            BY <5>3, DivShift, Zenon
          <5>5. 0 + ClHour * q = x
            BY <5>2, <5>3
          <5> QED
            BY <5>3, <5>4, <5>5
        <4>2. y = x + ClHour * 1 /\ x \in Int /\ 1 \in Int /\ ClHour \in Nat \ {0}
          BY <1>1, <1>3
        <4>3. (x + ClHour * 1) % ClHour = x % ClHour
          BY <4>2, DivShift, Zenon
        <4> QED
          BY <4>1, <4>2, <4>3
      <3>3. ASSUME NEW v \in Instants, y <= v, v < y + ClHour PROVE LocalOf[v].hour = LocalOf[u].hour
        <4>1. y \in Instants /\ y - (y % ClHour) <= v /\ v < y - (y % ClHour) + ClHour
          BY <1>1, <1>3, <1>4, <3>2, <3>3
        <4> HIDE DEF y
        <4>2. ClWall(y) \div ClHour = ClWall(v) \div ClHour
          BY <1>2, <4>1, SameUnit
        <4>3. LocalOf[v].hour = LocalOf[y].hour
          BY <4>1, <4>2, HourCell
        <4> QED
          BY <2>4, <4>3 DEF y
      <3>4. \A v \in u..d - 1 : v \in Instants /\ ((x <= v /\ v < x + ClHour) \/ (y <= v /\ v < y + ClHour))
        BY <1>1, <1>3, <1>5, <2>1, <3>1 DEF Instants
      <3>5. u < d
        BY <1>1, <1>3, <2>1, <3>1
      <3> QED
        BY <2>2, <3>3, <3>4, <3>5, Zenon
    <2> QED
      BY <2>3, <2>4
  <1> QED
    BY <1>5, <1>6

\* Two instants are of the same day of the calendar.
SameDay(u, v) ==
    /\ LocalOf[u].year = LocalOf[v].year /\ LocalOf[u].mon = LocalOf[v].mon
    /\ LocalOf[u].mday = LocalOf[v].mday /\ LocalOf[u].wday = LocalOf[v].wday

LEMMA DayJump ==
    ASSUME NEW u \in Instants, LocalOf[u].year < ClYears, NEW x \in MkTime(ClWall(u) - (ClWall(u) % ClDay))
    PROVE  \E d \in Instants :
              /\ DayBegins(x, d) /\ u < d
              /\ \A v \in u..d - 1 : v \in Instants /\ SameDay(v, u)
  <1> DEFINE w == ClWall(u)
             r == w % ClDay
             q == w \div ClDay
             f == w - r
  <1>1. ClDay \in Nat \ {0} /\ w \in Nat /\ w < ClHorizon /\ ClHorizon \in Nat
    BY Units, LocalFields, InYears
  <1>2. w = ClDay * q + r /\ r \in 0..ClDay - 1 /\ q \in Int
    <2>1. ClDay \in Nat \ {0} /\ w \in Int
      BY <1>1
    <2> QED
      BY <2>1, DivMod
  <1> HIDE DEF w, r, q
  <1>3. f = ClDay * q /\ f \in Int /\ f < ClHorizon /\ f <= w /\ w < f + ClDay
    BY <1>1, <1>2
  <1>4. Midnight(f)
    BY <1>1, <1>2, <1>3 DEF Midnight
  <1>5. x \in MkTime(f)
    BY DEF w, r
  <1> HIDE DEF f
  <1>6. PICK d \in Instants : DayBegins(x, d) /\ ClWall(d) = f + ClDay /\ ClWall(d - 1) < f + ClDay
    BY <1>3, <1>4, <1>5, NextDayRight
  <1> DEFINE g == f + ClDay
  <1>7. Midnight(g) /\ g \in Int
    <2>1. g \in Int /\ g = f + ClDay * 1 /\ f \in Int /\ 1 \in Int /\ ClDay \in Nat \ {0}
      BY <1>1, <1>3
    <2>2. (f + ClDay * 1) % ClDay = f % ClDay
      BY <2>1, DivShift, Zenon
    <2> QED
      BY <2>1, <2>2, <1>4 DEF Midnight
  <1>8. ClWall(d) = g /\ ClWall(d - 1) < g /\ w < g
    BY <1>3, <1>6
  <1> HIDE DEF g
  <1>9. u < d
    <2>1. ASSUME d <= u PROVE FALSE
      <3>1. g <= ClWall(d)
        BY <1>7, <1>8
      <3>2. g <= ClWall(u)
        BY <1>7, <2>1, <3>1, MidnightPassed
      <3> QED
        BY <1>1, <1>7, <1>8, <3>2 DEF w
    <2> QED
      BY <2>1 DEF Instants
  <1>10. ASSUME NEW v \in u..d - 1 PROVE v \in Instants /\ SameDay(v, u)
    <2>1. v \in Instants /\ u <= v /\ v < d /\ v \in Int
      <3>1. u \in Nat /\ d \in Nat /\ d <= ClHorizon + 2 * ClDay /\ ClHorizon \in Nat /\ ClDay \in Nat
        BY <1>1 DEF Instants
      <3> QED
        BY <3>1, <1>10 DEF Instants
    <2>2. f <= ClWall(v)
      BY <1>3, <1>4, <2>1, MidnightPassed DEF w
    <2>3. ClWall(v) < g
      BY <1>7, <1>8, <2>1, BeforeMidnight
    <2>4. ClWall(v) \in Int
      BY <2>1, LocalFields
    <2>5. ClDay * q <= ClWall(v) /\ ClWall(v) < ClDay * q + ClDay
      BY <1>3, <2>2, <2>3 DEF g
    <2>6. ClWall(v) \div ClDay = q
      BY <1>1, <1>2, <2>4, <2>5, DivOf
    <2>7. ClWall(v) \div ClDay = ClWall(u) \div ClDay
      BY <2>6 DEF q, w
    <2> QED
      BY <2>1, <2>7, DayCell DEF SameDay
  <1> QED
    BY <1>6, <1>9, <1>10

\* The beginning of the next month, or of the next year.
LEMMA MidnightJump ==
    ASSUME NEW u \in Instants, NEW g, Midnight(g), ClWall(u) < g, NEW d \in MkTime(g),
           ~(Cardinality(MkTime(g)) > 1)
    PROVE  u < d /\ \A v \in u..d - 1 : v \in Instants /\ ClWall(v) < g
  <1>1. d \in Instants /\ ClWall(d) = g /\ g \in Int /\ ClWall(u) \in Int
    BY MkTimeIs, LocalFields DEF Midnight
  <1>2. u < d
    <2>1. ASSUME d <= u PROVE FALSE
      <3>1. g <= ClWall(d)
        BY <1>1
      <3>2. g <= ClWall(u)
        BY <1>1, <2>1, <3>1, MidnightPassed
      <3> QED
        BY <1>1, <3>2
    <2> QED
      BY <1>1, <2>1 DEF Instants
  <1>3. d # 0
    BY <1>1, <1>2 DEF Instants
  <1>4. ClWall(d - 1) < g
    BY <1>3, MidnightOnce
  <1>5. ASSUME NEW v \in u..d - 1 PROVE v \in Instants /\ ClWall(v) < g
    <2>1. v \in Instants /\ v < d
      <3>1. u \in Nat /\ d \in Nat /\ d <= ClHorizon + 2 * ClDay /\ ClHorizon \in Nat /\ ClDay \in Nat
        BY <1>1, Units DEF Instants
      <3> QED
        BY <3>1, <1>5 DEF Instants
    <2> QED
      BY <1>1, <1>4, <2>1, BeforeMidnight
  <1> QED
    BY <1>2, <1>5

LEMMA YearJump ==
    ASSUME NEW u \in Instants, NEW g, g = BeginOfMonth(LocalOf[u].year + 1, 1), NEW d \in MkTime(g)
    PROVE  /\ d \in Instants
           /\ ~(Cardinality(MkTime(g)) > 1) =>
                u < d /\ \A v \in u..d - 1 : v \in Instants /\ LocalOf[v].year = LocalOf[u].year
  <1> DEFINE y == LocalOf[u].year
  <1>1. y \in Nat /\ y + 1 \in Nat
    BY FieldTypes
  <1>2. 1 \in 1..ClMonths + 1
    BY DaysBeforeSums
  <1>3. Midnight(g) /\ g \in Nat
    BY <1>1, <1>2, MonthMidnight
  <1>4. g = (y + 1) * ClYear
    BY <1>1, NextYearBegins
  <1>5. d \in Instants
    BY <1>3, MkTimeIs
  <1>6. ASSUME NEW v \in Instants PROVE (y <= LocalOf[v].year <=> y * ClYear <= ClWall(v)) /\ (y + 1 <= LocalOf[v].year <=> g <= ClWall(v))
    BY <1>1, <1>4, YearCell
  <1>7. Midnight(y * ClYear)
    <2>1. y * ClYear = BeginOfMonth(y, 1)
      BY <1>1, NextYearBegins
    <2> QED
      BY <1>1, <1>2, <2>1, MonthMidnight
  <1> HIDE DEF y
  <1>8. ClWall(u) < g /\ y * ClYear <= ClWall(u)
    <2>1. y = LocalOf[u].year /\ ClWall(u) \in Nat
      BY LocalFields DEF y
    <2>2. y <= LocalOf[u].year /\ ~(y + 1 <= LocalOf[u].year)
      BY <1>1, <2>1
    <2> QED
      BY <1>3, <1>6, <2>1, <2>2
  <1>9. ASSUME ~(Cardinality(MkTime(g)) > 1)
        PROVE  u < d /\ \A v \in u..d - 1 : v \in Instants /\ LocalOf[v].year = y
    <2>1. u < d /\ \A v \in u..d - 1 : v \in Instants /\ ClWall(v) < g
      BY <1>3, <1>8, <1>9, MidnightJump
    <2>2. ASSUME NEW v \in u..d - 1 PROVE v \in Instants /\ LocalOf[v].year = y
      <3>1. v \in Instants /\ ClWall(v) < g /\ u <= v /\ ClWall(v) \in Nat /\ LocalOf[v].year \in Nat
        BY <2>1, LocalFields, FieldTypes
      <3>2. y * ClYear <= ClWall(v)
        BY <1>7, <1>8, <3>1, MidnightPassed
      <3>3. y <= LocalOf[v].year
        BY <1>6, <3>1, <3>2
      <3>4. ~(y + 1 <= LocalOf[v].year)
        <4>1. ~(g <= ClWall(v))
          BY <1>3, <3>1
        <4> QED
          BY <1>6, <3>1, <4>1
      <3> QED
        BY <1>1, <3>1, <3>3, <3>4
    <2> QED
      BY <2>1, <2>2
  <1> QED
    BY <1>5, <1>9 DEF y

\* The instant with which the month after that of a date begins.
MonthAfter(t) == IF t.mon = ClMonths THEN BeginOfMonth(t.year + 1, 1) ELSE BeginOfMonth(t.year, t.mon + 1)

LEMMA MonthJump ==
    ASSUME NEW u \in Instants, NEW g, g = MonthAfter(LocalOf[u]), NEW d \in MkTime(g)
    PROVE  /\ d \in Instants
           /\ ~(Cardinality(MkTime(g)) > 1) =>
                /\ u < d
                /\ \A v \in u..d - 1 : /\ v \in Instants /\ LocalOf[v].year = LocalOf[u].year
                                       /\ LocalOf[v].mon = LocalOf[u].mon
  <1> DEFINE y == LocalOf[u].year
             m == LocalOf[u].mon
             f == BeginOfMonth(y, m)
  <1>1. y \in Nat /\ m \in 1..ClMonths /\ ClMonths \in Nat
    BY FieldTypes, DaysBeforeSums
  <1>2. g = BeginOfMonth(y, m + 1)
    BY <1>1, NextYearBegins DEF MonthAfter
  <1> HIDE DEF y, m
  <1>3. m \in 1..ClMonths + 1 /\ m + 1 \in 1..ClMonths + 1
    BY <1>1
  <1>4. Midnight(f) /\ Midnight(g) /\ g \in Nat /\ f \in Nat
    BY <1>1, <1>2, <1>3, MonthMidnight
  <1>5. d \in Instants
    BY <1>4, MkTimeIs
  <1>6. f <= ClWall(u) /\ ClWall(u) < g
    BY <1>2, MonthBounds DEF y, m
  <1>7. ASSUME ~(Cardinality(MkTime(g)) > 1)
        PROVE  u < d /\ \A v \in u..d - 1 : v \in Instants /\ LocalOf[v].year = y /\ LocalOf[v].mon = m
    <2>1. u < d /\ \A v \in u..d - 1 : v \in Instants /\ ClWall(v) < g
      BY <1>4, <1>6, <1>7, MidnightJump
    <2>2. ASSUME NEW v \in u..d - 1 PROVE v \in Instants /\ LocalOf[v].year = y /\ LocalOf[v].mon = m
      <3>1. v \in Instants /\ ClWall(v) < g /\ u <= v
        BY <2>1
      <3> HIDE DEF f
      <3>2. f <= ClWall(v)
        BY <1>4, <1>6, <3>1, MidnightPassed
      <3>3. BeginOfMonth(y, m) <= ClWall(v) /\ ClWall(v) < BeginOfMonth(y, m + 1)
        BY <1>2, <3>1, <3>2 DEF f
      <3> QED
        BY <1>1, <3>1, <3>3, MonthCell
    <2> QED
      BY <2>1, <2>2
  <1> QED
    BY <1>5, <1>7 DEF y, m

\* No instant after the last year of a schedule is of an earlier year.
LEMMA YearsPassed ==
    ASSUME NEW u \in Instants, NEW v \in Instants, u <= v
    PROVE  LocalOf[u].year <= LocalOf[v].year
  <1> DEFINE y == LocalOf[u].year
  <1>1. y \in Nat /\ 1 \in 1..ClMonths + 1
    BY FieldTypes, DaysBeforeSums
  <1>2. Midnight(y * ClYear)
    <2>1. y * ClYear = BeginOfMonth(y, 1)
      BY <1>1, NextYearBegins
    <2> QED
      BY <1>1, <2>1, MonthMidnight
  <1>3. y <= LocalOf[u].year
    BY <1>1
  <1> HIDE DEF y
  <1>4. y * ClYear <= ClWall(u)
    BY <1>1, <1>3, YearCell
  <1>5. y * ClYear <= ClWall(v)
    BY <1>2, <1>4, MidnightPassed
  <1>6. y <= LocalOf[v].year
    BY <1>1, <1>5, YearCell
  <1> QED
    BY <1>6 DEF y

(***************************************************************************)
(* The search.  The fields before the one that it looks at match, what it  *)
(* has put down for the two day fields is right, and no date of the        *)
(* schedule is behind it.                                                  *)
(***************************************************************************)
FieldsMatch ==
    /\ clField # "year" => In(clSched.year, Here.year) /\ Here.year < ClYears
    /\ clField \notin {"year", "month"} => In(clSched.mon, Here.mon)
    /\ clField \in {"wday", "day"} => (clAddDay[1] <=> ~In(clSched.mday, Here.mday))
    /\ clField = "day" => (clAddDay[2] <=> ~In(clSched.wday, Here.wday))
    /\ clField \in {"hour", "min", "sec"} => DayMatches(clSched, Here)
    /\ clField \in {"min", "sec"} => In(clSched.hour, Here.hour)
    /\ clField = "sec" => In(clSched.min, Here.min)

NonePassed == clCurrent < clAt /\ DatesBetween(clSched, clCurrent, clAt) = {}

SearchOK ==
    /\ clState = "searching" => FieldsMatch /\ (~clAmbiguous => NonePassed)
    /\ clState = "found" => Here.year < ClYears /\ IsDate(clSched, Here)

CalendarInv == ClTypeOK /\ FindsNextDate /\ LastTimeoutIsLast /\ SearchOK

LEMMA AddDayIs ==
    ASSUME NEW a \in BOOLEAN \X BOOLEAN, NEW b \in BOOLEAN
    PROVE  /\ [a EXCEPT ![1] = b] \in BOOLEAN \X BOOLEAN /\ [a EXCEPT ![1] = b][1] = b
           /\ [a EXCEPT ![2] = b] \in BOOLEAN \X BOOLEAN /\ [a EXCEPT ![2] = b][2] = b
           /\ [a EXCEPT ![2] = b][1] = a[1]
OBVIOUS
LEMMA FieldForms ==
    ASSUME NEW f, IsField(f)
    PROVE  /\ f.kind \in {"star", "list", "range", "one"}
           /\ f.kind = "star" <=> f = Star
           /\ f.kind = "star" => \A v : In(f, v)
           /\ f.kind = "list" => /\ \A v : In(f, v) <=> v \in f.values
                                 /\ f.values \subseteq Int /\ f.values # {} /\ f = ListOf(f.values)
           /\ f.kind = "range" => /\ \A v \in Int : In(f, v) <=> f.from <= v /\ v <= f.to
                                  /\ f.from \in Int /\ f.to \in Int /\ f = RangeOf(f.from, f.to)
           /\ f.kind = "one" => (\A v \in Int : In(f, v) <=> v = f.from) /\ f.from \in Int /\ f = One(f.from)
  <1>1. CASE f = Star
    <2>1. f.kind = "star"
      BY <1>1 DEF Star
    <2> QED
      BY <1>1, <2>1 DEF In
  <1>2. CASE f.kind = "list" /\ f = ListOf(f.values) /\ f.values \subseteq Int /\ f.values # {}
    <2>1. f # Star
      BY <1>2 DEF Star
    <2> QED
      BY <1>2, <2>1 DEF In
  <1>3. CASE f.kind = "range" /\ f = RangeOf(f.from, f.to) /\ f.from \in Int /\ f.to \in Int
    <2>1. f # Star
      BY <1>3 DEF Star
    <2> QED
      BY <1>3, <2>1 DEF In
  <1>4. CASE f.kind = "one" /\ f = One(f.from) /\ f.from \in Int
    <2>1. f # Star
      BY <1>4 DEF Star
    <2>2. f.to = f.from
      BY <1>4 DEF One
    <2>3. \A v \in Int : In(f, v) <=> f.from <= v /\ v <= f.from
      BY <1>4, <2>2 DEF In
    <2> QED
      BY <1>4, <2>1, <2>3
  <1> QED
    BY <1>1, <1>2, <1>3, <1>4 DEF IsField

LEMMA NoDates ==
    ASSUME NEW s, NEW a \in Int, NEW b \in Int
    PROVE  DatesBetween(s, a, b) = {} <=> \A v \in a + 1..b - 1 : ~IsDate(s, LocalOf[v])
  BY DEF DatesBetween

LEMMA TypesHere ==
    ASSUME CalendarInv
    PROVE  /\ clAt \in Instants /\ clAt \in Nat /\ clCurrent \in Instants /\ clCurrent \in Nat
           /\ Here = LocalOf[clAt] /\ Here.year \in Nat /\ Here.mon \in 1..ClMonths /\ Here.mday \in Int
           /\ Here.wday \in Int /\ Here.hour \in Int /\ Here.min \in Int /\ Here.sec \in Int
           /\ ClWall(clAt) = Here.wall /\ ClWall(clAt) \in Nat
           /\ clAmbiguous \in BOOLEAN /\ clAddDay \in BOOLEAN \X BOOLEAN
  <1>1. clAt \in Instants /\ clCurrent \in Instants /\ clAmbiguous \in BOOLEAN /\ clAddDay \in BOOLEAN \X BOOLEAN
    BY DEF CalendarInv, ClTypeOK, LocalOf, Instants
  <1>2. clAt \in Nat /\ clCurrent \in Nat
    BY <1>1 DEF Instants
  <1>3. /\ Here.year \in Nat /\ Here.mon \in 1..ClMonths /\ Here.mday \in Int
        /\ Here.wday \in Int /\ Here.hour \in Int /\ Here.min \in Int /\ Here.sec \in Int
    BY <1>1, FieldTypes DEF Here
  <1>4. ClWall(clAt) = Here.wall /\ ClWall(clAt) \in Nat
    BY <1>1, LocalFields DEF Here
  <1> QED
    BY <1>1, <1>2, <1>3, <1>4 DEF Here

LEMMA IntervalParts ==
    ASSUME NEW a \in Int, NEW b \in Int, NEW c \in Int, NEW v \in a + 1..c - 1
    PROVE  v \in a + 1..b - 1 \/ v \in b..c - 1
OBVIOUS

\* A search that moves the date on past instants that are no dates.
LEMMA MoveKeepsInv ==
    ASSUME CalendarInv, clState = "searching", UNCHANGED <<clObject, clState>>,
           clField' = "year", clAddDay' = <<FALSE, FALSE>>, clAt' \in Instants, clAmbiguous' \in BOOLEAN,
           ~clAmbiguous' => ~clAmbiguous /\ clAt < clAt' /\ \A v \in clAt..clAt' - 1 : ~IsDate(clSched, LocalOf[v])
    PROVE  CalendarInv'
  <1>1. clAt \in Nat /\ clCurrent \in Nat /\ clAt' \in Nat
    BY TypesHere DEF Instants
  <1>2. clSched' = clSched /\ clCurrent' = clCurrent /\ clState' = "searching"
    BY DEF clObject
  <1>3. ClTypeOK'
    <2>1. ClTypeOK /\ DOMAIN LocalOf = Instants
      BY DEF CalendarInv, LocalOf, Instants
    <2> QED
      BY <2>1, <1>2 DEF ClTypeOK
  <1>4. FindsNextDate' /\ LastTimeoutIsLast'
    BY <1>2 DEF FindsNextDate, LastTimeoutIsLast
  <1>5. FieldsMatch'
    BY DEF FieldsMatch
  <1>6. ASSUME ~clAmbiguous' PROVE NonePassed'
    <2>1. clCurrent < clAt /\ DatesBetween(clSched, clCurrent, clAt) = {}
      BY <1>6 DEF CalendarInv, SearchOK, NonePassed
    <2>2. \A v \in clCurrent + 1..clAt - 1 : ~IsDate(clSched, LocalOf[v])
      BY <1>1, <2>1, NoDates
    <2>3. clCurrent \in Int /\ clAt \in Int /\ clAt' \in Int
      BY <1>1
    <2>4. ASSUME NEW v \in clCurrent + 1..clAt' - 1 PROVE ~IsDate(clSched, LocalOf[v])
      <3>1. v \in clCurrent + 1..clAt - 1 \/ v \in clAt..clAt' - 1
        BY <2>3, IntervalParts
      <3>2. \A w \in clAt..clAt' - 1 : ~IsDate(clSched, LocalOf[w])
        BY <1>6
      <3> QED
        BY <2>2, <3>1, <3>2
    <2>5. DatesBetween(clSched, clCurrent, clAt') = {}
      <3>1. clCurrent \in Int /\ clAt' \in Int
        BY <1>1
      <3> QED
        BY <2>4, <3>1, NoDates, Zenon
    <2> QED
      BY <1>1, <1>2, <1>6, <2>1, <2>5 DEF NonePassed
  <1>7. SearchOK'
    BY <1>2, <1>5, <1>6 DEF SearchOK
  <1> QED
    BY <1>3, <1>4, <1>7 DEF CalendarInv

LEMMA NextSecondKeepsInv ==
    ASSUME CalendarInv, clState = "searching", Here.year < ClYears, ~In(clSched.sec, Here.sec), ClNextSecond
    PROVE  CalendarInv'
  <1>1. clAt \in Instants /\ clAt \in Nat /\ ClWall(clAt) = Here.wall /\ clAmbiguous \in BOOLEAN /\ Here = LocalOf[clAt]
    BY TypesHere
  <1>2. PICK x \in MkTime(ClWall(clAt)) : clAt' = x + 1
    BY <1>1 DEF ClNextSecond, ClMoves
  <1>3. /\ clAmbiguous' = (clAmbiguous \/ Cardinality(MkTime(ClWall(clAt))) > 1)
        /\ clField' = "year" /\ clAddDay' = <<FALSE, FALSE>> /\ UNCHANGED <<clObject, clState>>
    BY <1>1 DEF ClNextSecond, ClMoves
  <1>4. clAt' \in Instants /\ (~(Cardinality(MkTime(ClWall(clAt))) > 1) => x = clAt)
    BY <1>1, <1>2, SecondJump
  <1>5. ASSUME ~clAmbiguous'
        PROVE  ~clAmbiguous /\ clAt < clAt' /\ \A v \in clAt..clAt' - 1 : ~IsDate(clSched, LocalOf[v])
    <2>1. ~clAmbiguous /\ x = clAt
      BY <1>3, <1>4, <1>5
    <2>2. \A v \in clAt..clAt' - 1 : v = clAt
      BY <1>1, <1>2, <2>1
    <2>3. ~IsDate(clSched, LocalOf[clAt])
      BY <1>1 DEF IsDate
    <2> QED
      BY <1>1, <1>2, <2>1, <2>2, <2>3
  <1>6. clAmbiguous' \in BOOLEAN
    BY <1>3
  <1> QED
    BY <1>3, <1>4, <1>5, <1>6, MoveKeepsInv

LEMMA NextMinuteKeepsInv ==
    ASSUME CalendarInv, clState = "searching", Here.year < ClYears, ~In(clSched.min, Here.min), ClNextMinute
    PROVE  CalendarInv'
  <1> DEFINE w == ClWall(clAt) - (ClWall(clAt) % ClMinute)
  <1>1. clAt \in Instants /\ clAt \in Nat /\ ClWall(clAt) = Here.wall /\ clAmbiguous \in BOOLEAN /\ Here = LocalOf[clAt]
    BY TypesHere
  <1>2. PICK x \in MkTime(w) : clAt' = x + ClMinute
    BY <1>1 DEF ClNextMinute, ClMoves
  <1>3. /\ clAmbiguous' = (clAmbiguous \/ Cardinality(MkTime(w)) > 1)
        /\ clField' = "year" /\ clAddDay' = <<FALSE, FALSE>> /\ UNCHANGED <<clObject, clState>>
    BY <1>1 DEF ClNextMinute, ClMoves
  <1>4. /\ clAt' \in Instants
        /\ ~(Cardinality(MkTime(w)) > 1) =>
             clAt < clAt' /\ \A v \in clAt..clAt' - 1 : LocalOf[v].min = LocalOf[clAt].min
    <2>1. LocalOf[clAt].year < ClYears
      BY <1>1
    <2>2. /\ x + ClMinute \in Instants
          /\ ~(Cardinality(MkTime(w)) > 1) =>
               /\ clAt < x + ClMinute
               /\ \A v \in clAt..x + ClMinute - 1 : v \in Instants /\ LocalOf[v].min = LocalOf[clAt].min
      BY <1>1, <2>1, MinuteJump, Zenon
    <2>3. clAt' - 1 = x + (ClMinute - 1)
      <3>1. ClMinute \in Int /\ x \in Int
        BY Units DEF MkTime, LocalOf
      <3> QED
        BY <1>2, <3>1
    <2> HIDE DEF w
    <2> QED
      BY <1>2, <2>2, <2>3
  <1>5. ASSUME ~clAmbiguous'
        PROVE  ~clAmbiguous /\ clAt < clAt' /\ \A v \in clAt..clAt' - 1 : ~IsDate(clSched, LocalOf[v])
    <2>1. ~clAmbiguous /\ ~(Cardinality(MkTime(w)) > 1)
      BY <1>3, <1>5
    <2>2. \A v \in clAt..clAt' - 1 : ~In(clSched.min, LocalOf[v].min)
      BY <1>1, <1>4, <2>1
    <2> QED
      BY <1>4, <2>1, <2>2 DEF IsDate
  <1>6. clAmbiguous' \in BOOLEAN
    BY <1>3
  <1> HIDE DEF w
  <1> QED
    BY <1>3, <1>4, <1>5, <1>6, MoveKeepsInv

LEMMA NextHourKeepsInv ==
    ASSUME CalendarInv, clState = "searching", Here.year < ClYears, ~In(clSched.hour, Here.hour), ClNextHour
    PROVE  CalendarInv'
  <1> DEFINE w == ClWall(clAt) - (ClWall(clAt) % ClHour)
  <1>1. clAt \in Instants /\ clAt \in Nat /\ ClWall(clAt) = Here.wall /\ clAmbiguous \in BOOLEAN /\ Here = LocalOf[clAt]
    BY TypesHere
  <1>2. PICK x \in MkTime(w) :
            clAt' = IF LocalOf[x + ClHour].hour = LocalOf[clAt].hour THEN x + 2 * ClHour ELSE x + ClHour
    BY <1>1 DEF ClNextHour, ClMoves
  <1>3. /\ clAmbiguous' = (clAmbiguous \/ Cardinality(MkTime(w)) > 1)
        /\ clField' = "year" /\ clAddDay' = <<FALSE, FALSE>> /\ UNCHANGED <<clObject, clState>>
    BY <1>1 DEF ClNextHour, ClMoves
  <1>4. /\ clAt' \in Instants
        /\ ~(Cardinality(MkTime(w)) > 1) =>
             clAt < clAt' /\ \A v \in clAt..clAt' - 1 : LocalOf[v].hour = LocalOf[clAt].hour
    <2>1. LocalOf[clAt].year < ClYears
      BY <1>1
    <2> DEFINE d == clAt'
    <2>2. d = IF LocalOf[x + ClHour].hour = LocalOf[clAt].hour THEN x + 2 * ClHour ELSE x + ClHour
      BY <1>2
    <2> HIDE DEF d
    <2>3. /\ d \in Instants
          /\ ~(Cardinality(MkTime(w)) > 1) =>
               clAt < d /\ \A v \in clAt..d - 1 : v \in Instants /\ LocalOf[v].hour = LocalOf[clAt].hour
      BY <1>1, <2>1, <2>2, HourJump, ZenonT(30)
    <2> QED
      BY <2>3 DEF d
  <1>5. ASSUME ~clAmbiguous'
        PROVE  ~clAmbiguous /\ clAt < clAt' /\ \A v \in clAt..clAt' - 1 : ~IsDate(clSched, LocalOf[v])
    <2>1. ~clAmbiguous /\ ~(Cardinality(MkTime(w)) > 1)
      BY <1>3, <1>5
    <2>2. \A v \in clAt..clAt' - 1 : ~In(clSched.hour, LocalOf[v].hour)
      BY <1>1, <1>4, <2>1
    <2> QED
      BY <1>4, <2>1, <2>2 DEF IsDate
  <1>6. clAmbiguous' \in BOOLEAN
    BY <1>3
  <1> HIDE DEF w
  <1> QED
    BY <1>3, <1>4, <1>5, <1>6, MoveKeepsInv

LEMMA NextMonthKeepsInv ==
    ASSUME CalendarInv, clState = "searching", ~In(clSched.mon, Here.mon), ClNextMonth
    PROVE  CalendarInv'
  <1> DEFINE w == MonthAfter(LocalOf[clAt])
  <1>1. clAt \in Instants /\ clAt \in Nat /\ clAmbiguous \in BOOLEAN /\ Here = LocalOf[clAt]
    BY TypesHere
  <1>2. PICK x \in MkTime(w) : clAt' = x
    BY <1>1 DEF ClNextMonth, ClMoves, MonthAfter
  <1>3. /\ clAmbiguous' = (clAmbiguous \/ Cardinality(MkTime(w)) > 1)
        /\ clField' = "year" /\ clAddDay' = <<FALSE, FALSE>> /\ UNCHANGED <<clObject, clState>>
    BY <1>1 DEF ClNextMonth, ClMoves, MonthAfter
  <1>4. /\ clAt' \in Instants
        /\ ~(Cardinality(MkTime(w)) > 1) =>
             clAt < clAt' /\ \A v \in clAt..clAt' - 1 : LocalOf[v].mon = LocalOf[clAt].mon
    BY <1>1, <1>2, MonthJump
  <1>5. ASSUME ~clAmbiguous'
        PROVE  ~clAmbiguous /\ clAt < clAt' /\ \A v \in clAt..clAt' - 1 : ~IsDate(clSched, LocalOf[v])
    <2>1. ~clAmbiguous /\ ~(Cardinality(MkTime(w)) > 1)
      BY <1>3, <1>5
    <2>2. \A v \in clAt..clAt' - 1 : ~In(clSched.mon, LocalOf[v].mon)
      BY <1>1, <1>4, <2>1
    <2> QED
      BY <1>4, <2>1, <2>2 DEF IsDate
  <1>6. clAmbiguous' \in BOOLEAN
    BY <1>3
  <1> HIDE DEF w
  <1> QED
    BY <1>3, <1>4, <1>5, <1>6, MoveKeepsInv

LEMMA NextYearKeepsInv ==
    ASSUME CalendarInv, clState = "searching", ~In(clSched.year, Here.year), ClNextYear
    PROVE  CalendarInv'
  <1> DEFINE w == BeginOfMonth(LocalOf[clAt].year + 1, 1)
  <1>1. clAt \in Instants /\ clAt \in Nat /\ clAmbiguous \in BOOLEAN /\ Here = LocalOf[clAt]
    BY TypesHere
  <1>2. PICK x \in MkTime(w) : clAt' = x
    BY <1>1 DEF ClNextYear, ClMoves
  <1>3. /\ clAmbiguous' = (clAmbiguous \/ Cardinality(MkTime(w)) > 1)
        /\ clField' = "year" /\ clAddDay' = <<FALSE, FALSE>> /\ UNCHANGED <<clObject, clState>>
    BY <1>1 DEF ClNextYear, ClMoves
  <1>4. /\ clAt' \in Instants
        /\ ~(Cardinality(MkTime(w)) > 1) =>
             clAt < clAt' /\ \A v \in clAt..clAt' - 1 : LocalOf[v].year = LocalOf[clAt].year
    BY <1>1, <1>2, YearJump
  <1>5. ASSUME ~clAmbiguous'
        PROVE  ~clAmbiguous /\ clAt < clAt' /\ \A v \in clAt..clAt' - 1 : ~IsDate(clSched, LocalOf[v])
    <2>1. ~clAmbiguous /\ ~(Cardinality(MkTime(w)) > 1)
      BY <1>3, <1>5
    <2>2. \A v \in clAt..clAt' - 1 : ~In(clSched.year, LocalOf[v].year)
      BY <1>1, <1>4, <2>1
    <2> QED
      BY <1>4, <2>1, <2>2 DEF IsDate
  <1>6. clAmbiguous' \in BOOLEAN
    BY <1>3
  <1> HIDE DEF w
  <1> QED
    BY <1>3, <1>4, <1>5, <1>6, MoveKeepsInv

LEMMA ScheduleFields ==
    ASSUME CalendarInv, clState = "searching"
    PROVE  /\ clSched \in ClSchedules
           /\ IsField(clSched.year) /\ IsField(clSched.mon) /\ IsField(clSched.mday) /\ IsField(clSched.wday)
           /\ IsField(clSched.hour) /\ IsField(clSched.min) /\ IsField(clSched.sec)
           /\ clSched.year.values \cup {clSched.year.from, clSched.year.to} \subseteq 0..ClYears - 1
  <1>1. clSched \in ClSchedules
    BY DEF CalendarInv, ClTypeOK
  <1> QED
    BY <1>1, ScheduleAssumption

\* At the field "day" the search has found out whether the day matches.
LEMMA DayDecided ==
    ASSUME CalendarInv, AtField("day")
    PROVE  ClAddDayNeeded <=> ~DayMatches(clSched, Here)
  <1>1. clState = "searching" /\ clField = "day"
    BY DEF AtField
  <1>2. (clAddDay[1] <=> ~In(clSched.mday, Here.mday)) /\ (clAddDay[2] <=> ~In(clSched.wday, Here.wday))
    BY <1>1 DEF CalendarInv, SearchOK, FieldsMatch
  <1>3. IsField(clSched.mday) /\ IsField(clSched.wday)
    BY <1>1, ScheduleFields
  <1>4. /\ clSched.mday.kind = "star" <=> clSched.mday = Star
        /\ clSched.mday.kind = "star" => In(clSched.mday, Here.mday)
    BY <1>3, FieldForms
  <1>5. /\ clSched.wday.kind = "star" <=> clSched.wday = Star
        /\ clSched.wday.kind = "star" => In(clSched.wday, Here.wday)
    BY <1>3, FieldForms
  <1>6. clAddDay[1] \in BOOLEAN /\ clAddDay[2] \in BOOLEAN
    BY TypesHere
  <1>7. CASE clSched.mday = Star /\ clSched.wday = Star
    BY <1>4, <1>5, <1>7 DEF ClAddDayNeeded, DayMatches
  <1>8. CASE clSched.mday = Star /\ clSched.wday # Star
    BY <1>2, <1>4, <1>5, <1>8 DEF ClAddDayNeeded, DayMatches
  <1>9. CASE clSched.mday # Star /\ clSched.wday = Star
    BY <1>2, <1>4, <1>5, <1>9 DEF ClAddDayNeeded, DayMatches
  <1>10. CASE clSched.mday # Star /\ clSched.wday # Star
    BY <1>2, <1>4, <1>5, <1>10 DEF ClAddDayNeeded, DayMatches
  <1> QED
    BY <1>7, <1>8, <1>9, <1>10

LEMMA NextDayIs ==
    ASSUME NEW u \in Int, NEW d \in Int, DayBegins(u, d)
    PROVE  LET h == LocalOf[u + ClDay].hour
           IN d = CASE h = 0 -> u + ClDay
                    [] h = ClHours - 1 -> u + ClDay + ClHour
                    [] h = 1 -> u + ClDay - ClHour
  <1> DEFINE h == LocalOf[u + ClDay].hour
  <1>1. 2 < ClHours /\ ClHours \in Nat
    BY HoursDiffer
  <1>2. h \in {0, 1, ClHours - 1} /\ (h = 0 => d = u + ClDay)
        /\ (h = 1 => d = u + ClDay - ClHour) /\ (h = ClHours - 1 => d = u + ClDay + ClHour)
    <2>1. ClDay \in Int /\ ClHour \in Int
      BY Units
    <2> QED
      BY <2>1 DEF DayBegins
  <1> HIDE DEF h
  <1>3. d = CASE h = 0 -> u + ClDay
              [] h = ClHours - 1 -> u + ClDay + ClHour
              [] h = 1 -> u + ClDay - ClHour
    <2>1. CASE h = 0
      BY <1>1, <1>2, <2>1
    <2>2. CASE h = 1
      BY <1>1, <1>2, <2>2
    <2>3. CASE h = ClHours - 1
      BY <1>1, <1>2, <2>3
    <2> QED
      BY <1>2, <2>1, <2>2, <2>3
  <1> QED
    BY <1>3 DEF h

LEMMA NextDayKeepsInv ==
    ASSUME CalendarInv, ClNextDay
    PROVE  CalendarInv'
  <1> DEFINE w == ClWall(clAt) - (ClWall(clAt) % ClDay)
  <1>1. clAt \in Instants /\ clAt \in Nat /\ ClWall(clAt) = Here.wall /\ clAmbiguous \in BOOLEAN /\ Here = LocalOf[clAt]
    BY TypesHere
  <1>2. AtField("day") /\ ClAddDayNeeded /\ clState = "searching" /\ clField = "day"
    BY DEF ClNextDay, AtField
  <1>3. PICK x \in MkTime(w) :
            clAt' = LET h == LocalOf[x + ClDay].hour
                    IN CASE h = 0 -> x + ClDay
                         [] h = ClHours - 1 -> x + ClDay + ClHour
                         [] h = 1 -> x + ClDay - ClHour
    BY <1>1 DEF ClNextDay, ClMoves
  <1>4. /\ clAmbiguous' = (clAmbiguous \/ Cardinality(MkTime(w)) > 1)
        /\ clField' = "year" /\ clAddDay' = <<FALSE, FALSE>> /\ UNCHANGED <<clObject, clState>>
    BY <1>1 DEF ClNextDay, ClMoves
  <1>5. LocalOf[clAt].year < ClYears
    BY <1>1, <1>2 DEF CalendarInv, SearchOK, FieldsMatch
  <1>6. PICK d \in Instants :
            DayBegins(x, d) /\ clAt < d /\ \A v \in clAt..d - 1 : v \in Instants /\ SameDay(v, clAt)
    BY <1>1, <1>5, DayJump
  <1>7. clAt' = d
    <2>1. d \in Int /\ x \in Int
      BY DEF Instants, MkTime, LocalOf
    <2> HIDE DEF w
    <2> QED
      BY <1>3, <1>6, <2>1, NextDayIs
  <1>8. ~DayMatches(clSched, LocalOf[clAt])
    BY <1>1, <1>2, DayDecided
  <1>9. ASSUME NEW v \in clAt..d - 1 PROVE ~IsDate(clSched, LocalOf[v])
    BY <1>6, <1>8 DEF SameDay, IsDate, DayMatches
  <1>10. ASSUME ~clAmbiguous'
         PROVE  ~clAmbiguous /\ clAt < clAt' /\ \A v \in clAt..clAt' - 1 : ~IsDate(clSched, LocalOf[v])
    BY <1>4, <1>6, <1>7, <1>9, <1>10
  <1>11. clAmbiguous' \in BOOLEAN /\ clAt' \in Instants
    BY <1>4, <1>7
  <1> HIDE DEF w
  <1> QED
    BY <1>2, <1>4, <1>10, <1>11, MoveKeepsInv

\* A search that goes over to the next field.
LEMMA StepKeepsInv ==
    ASSUME CalendarInv, clState = "searching", UNCHANGED <<clObject, clAt, clState, clAmbiguous>>,
           clField' \in {"year", "month", "mday", "wday", "day", "hour", "min", "sec"},
           clAddDay' \in BOOLEAN \X BOOLEAN, FieldsMatch'
    PROVE  CalendarInv'
  <1>1. clSched' = clSched /\ clCurrent' = clCurrent /\ clState' = "searching" /\ clAt' = clAt /\ clAmbiguous' = clAmbiguous
    BY DEF clObject
  <1>2. ClTypeOK'
    BY <1>1 DEF CalendarInv, ClTypeOK
  <1>3. FindsNextDate' /\ LastTimeoutIsLast'
    BY <1>1 DEF FindsNextDate, LastTimeoutIsLast
  <1>4. NonePassed' <=> NonePassed
    BY <1>1 DEF NonePassed
  <1>5. SearchOK'
    BY <1>1, <1>4 DEF CalendarInv, SearchOK
  <1> QED
    BY <1>2, <1>3, <1>5 DEF CalendarInv

\* The field that the search looks at matches.
FieldMatches ==
    CASE clField = "year" -> In(clSched.year, Here.year) /\ Here.year < ClYears
      [] clField = "month" -> In(clSched.mon, Here.mon)
      [] clField = "day" -> DayMatches(clSched, Here)
      [] clField = "hour" -> In(clSched.hour, Here.hour)
      [] clField = "min" -> In(clSched.min, Here.min)
      [] clField = "sec" -> In(clSched.sec, Here.sec)

LEMMA MatchedKeepsInv ==
    ASSUME CalendarInv, clState = "searching", FieldMatches,
           NEW next, <<clField, next>> \in {<<"year", "month">>, <<"month", "mday">>, <<"day", "hour">>,
                                            <<"hour", "min">>, <<"min", "sec">>},
           Matched(next)
    PROVE  CalendarInv'
  <1>1. clField' = next /\ UNCHANGED <<clObject, clAt, clState, clAddDay, clAmbiguous>>
    BY DEF Matched
  <1>2. clSched' = clSched /\ Here' = Here
    BY <1>1 DEF clObject, Here
  <1>3. FieldsMatch
    BY DEF CalendarInv, SearchOK
  <1>4. FieldsMatch'
    <2>1. CASE clField = "year" /\ next = "month"
      BY <1>1, <1>2, <1>3, <2>1 DEF FieldsMatch, FieldMatches
    <2>2. CASE clField = "month" /\ next = "mday"
      BY <1>1, <1>2, <1>3, <2>2 DEF FieldsMatch, FieldMatches
    <2>3. CASE clField = "day" /\ next = "hour"
      BY <1>1, <1>2, <1>3, <2>3 DEF FieldsMatch, FieldMatches
    <2>4. CASE clField = "hour" /\ next = "min"
      BY <1>1, <1>2, <1>3, <2>4 DEF FieldsMatch, FieldMatches
    <2>5. CASE clField = "min" /\ next = "sec"
      BY <1>1, <1>2, <1>3, <2>5 DEF FieldsMatch, FieldMatches
    <2> QED
      BY <2>1, <2>2, <2>3, <2>4, <2>5
  <1>5. clAddDay' \in BOOLEAN \X BOOLEAN
    BY <1>1, TypesHere
  <1>6. clField' \in {"year", "month", "mday", "wday", "day", "hour", "min", "sec"}
    BY <1>1
  <1> QED
    BY <1>1, <1>4, <1>5, <1>6, StepKeepsInv

LEMMA MonthDayKeepsInv ==
    ASSUME CalendarInv, AtField("mday"), NEW add \in BOOLEAN, add <=> ~In(clSched.mday, Here.mday), DayField(1, add, "wday")
    PROVE  CalendarInv'
  <1>1. /\ clState = "searching" /\ clField = "mday" /\ clField' = "wday" /\ clAddDay' = [clAddDay EXCEPT ![1] = add]
        /\ UNCHANGED <<clObject, clAt, clState, clAmbiguous>>
    BY DEF DayField, AtField
  <1>2. clSched' = clSched /\ Here' = Here
    BY <1>1 DEF clObject, Here
  <1>3. clAddDay' \in BOOLEAN \X BOOLEAN /\ clAddDay'[1] = add
    BY <1>1, TypesHere, AddDayIs
  <1>4. FieldsMatch'
    BY <1>1, <1>2, <1>3 DEF FieldsMatch, CalendarInv, SearchOK
  <1> QED
    BY <1>1, <1>3, <1>4, StepKeepsInv

LEMMA WeekDayKeepsInv ==
    ASSUME CalendarInv, AtField("wday"), NEW add \in BOOLEAN, add <=> ~In(clSched.wday, Here.wday), DayField(2, add, "day")
    PROVE  CalendarInv'
  <1>1. /\ clState = "searching" /\ clField = "wday" /\ clField' = "day" /\ clAddDay' = [clAddDay EXCEPT ![2] = add]
        /\ UNCHANGED <<clObject, clAt, clState, clAmbiguous>>
    BY DEF DayField, AtField
  <1>2. clSched' = clSched /\ Here' = Here
    BY <1>1 DEF clObject, Here
  <1>3. clAddDay' \in BOOLEAN \X BOOLEAN /\ clAddDay'[2] = add /\ clAddDay'[1] = clAddDay[1]
    BY <1>1, TypesHere, AddDayIs
  <1>4. FieldsMatch'
    BY <1>1, <1>2, <1>3 DEF FieldsMatch, CalendarInv, SearchOK
  <1> QED
    BY <1>1, <1>3, <1>4, StepKeepsInv

LEMMA ReturnKeepsInv ==
    ASSUME CalendarInv, AtField("year") \/ AtField("sec"), NEW state \in {"found", "last", "beyond"}, ClReturns(state),
           state = "found" => AtField("sec") /\ In(clSched.sec, Here.sec),
           state = "last" => \A v \in Instants : clAt <= v => ~In(clSched.year, LocalOf[v].year)
    PROVE  CalendarInv'
  <1>1. /\ clState = "searching" /\ clState' = state /\ clField' = "year" /\ clAddDay' = <<FALSE, FALSE>>
        /\ UNCHANGED <<clObject, clAt, clAmbiguous>>
    BY DEF ClReturns, AtField
  <1>2. clSched' = clSched /\ clCurrent' = clCurrent /\ clAt' = clAt /\ clAmbiguous' = clAmbiguous /\ Here' = Here
    BY <1>1 DEF clObject, Here
  <1>3. FieldsMatch /\ (~clAmbiguous => NonePassed)
    BY <1>1 DEF CalendarInv, SearchOK
  <1>4. ClTypeOK'
    BY <1>1, <1>2 DEF CalendarInv, ClTypeOK
  <1>5. ASSUME state = "found" PROVE IsDate(clSched, Here) /\ Here.year < ClYears
    <2>1. clField = "sec" /\ In(clSched.sec, Here.sec)
      BY <1>5 DEF AtField
    <2> QED
      BY <1>3, <2>1 DEF FieldsMatch, IsDate
  <1>6. FindsNextDate'
    BY <1>1, <1>2, <1>3, <1>5 DEF FindsNextDate, NonePassed, Here
  <1>7. ASSUME state = "last", ~clAmbiguous PROVE DatesBetween(clSched, clCurrent, ClHorizon) = {}
    <2>1. clAt \in Int /\ clCurrent \in Nat /\ ClHorizon \in Int /\ ClHorizon \in Nat /\ ClDay \in Nat
      BY TypesHere, Units
    <2>2. \A v \in clCurrent + 1..clAt - 1 : ~IsDate(clSched, LocalOf[v])
      BY <1>3, <1>7, <2>1, NoDates DEF NonePassed
    <2>3. ASSUME NEW v \in clCurrent + 1..ClHorizon - 1 PROVE ~IsDate(clSched, LocalOf[v])
      <3>1. v \in clCurrent + 1..clAt - 1 \/ v \in clAt..ClHorizon - 1
        BY <2>1, IntervalParts
      <3>2. v \in Instants
        BY <2>1 DEF Instants
      <3>3. CASE v \in clAt..ClHorizon - 1
        <4>1. clAt <= v
          BY <2>1, <3>3
        <4> QED
          BY <1>7, <3>2, <4>1 DEF IsDate
      <3> QED
        BY <2>2, <3>1, <3>3
    <2> QED
      BY <2>1, <2>3, NoDates
  <1>8. LastTimeoutIsLast'
    BY <1>1, <1>2, <1>7 DEF LastTimeoutIsLast
  <1>9. SearchOK'
    BY <1>1, <1>2, <1>5 DEF SearchOK
  <1> QED
    BY <1>4, <1>6, <1>8, <1>9 DEF CalendarInv

LEMMA GreatestYear ==
    ASSUME NEW S \in SUBSET (0..ClYears - 1), S # {}
    PROVE  Max(S) \in S /\ \A x \in S : x <= Max(S)
  <1>1. ClYears \in Nat /\ \A x \in S : x \in Int /\ 0 <= x /\ x <= ClYears - 1
    BY Units
  <1>2. \E m \in S : \A x \in S : x <= m
    <2> DEFINE T == {ClYears - 1 - x : x \in S}
    <2>1. T \subseteq Nat /\ T # {}
      <3>1. \A x \in S : ClYears - 1 - x \in Nat
        BY <1>1
      <3>2. PICK x \in S : TRUE
        OBVIOUS
      <3>3. ClYears - 1 - x \in T
        OBVIOUS
      <3> QED
        BY <3>1, <3>3
    <2>2. PICK t \in T : \A y \in T : t <= y
      BY <2>1, LeastInstant
    <2>3. PICK m \in S : t = ClYears - 1 - m
      BY <2>2
    <2>4. ASSUME NEW x \in S PROVE x <= m
      <3>1. x \in Int /\ m \in Int
        BY <1>1
      <3>2. t <= ClYears - 1 - x
        BY <2>2
      <3> QED
        BY <1>1, <2>3, <3>1, <3>2
    <2> QED
      BY <2>4
  <1>3. Max(S) = CHOOSE m \in S : \A x \in S : x <= m
    BY DEF Max
  <1> QED
    BY <1>2, <1>3

LEMMA YearGoneKeepsInv ==
    ASSUME CalendarInv, AtField("year"), ~In(clSched.year, Here.year), NEW last \in Int,
           \A y \in Int : In(clSched.year, y) => y <= last, ClYearGone(last)
    PROVE  CalendarInv'
  <1>1. clState = "searching" /\ clAt \in Instants /\ Here = LocalOf[clAt] /\ Here.year \in Int
    BY TypesHere DEF AtField
  <1>2. CASE last < Here.year
    <2>1. ClReturns("last")
      BY <1>2 DEF ClYearGone
    <2>2. ASSUME NEW v \in Instants, clAt <= v PROVE ~In(clSched.year, LocalOf[v].year)
      <3>1. LocalOf[clAt].year <= LocalOf[v].year
        BY <1>1, <2>2, YearsPassed
      <3>2. LocalOf[v].year \in Int
        BY FieldTypes
      <3> QED
        BY <1>1, <1>2, <3>1, <3>2
    <2> QED
      BY <2>1, <2>2, ReturnKeepsInv
  <1>3. CASE ~(last < Here.year)
    <2>1. ClNextYear
      BY <1>3 DEF ClYearGone
    <2> QED
      BY <1>1, <2>1, NextYearKeepsInv
  <1> QED
    BY <1>2, <1>3

LEMMA YearStep ==
    ASSUME CalendarInv, ClYearList \/ ClYearRange \/ ClYearOne \/ ClBeyond
    PROVE  CalendarInv'
  <1> DEFINE f == clSched.year
             y == Here.year
  <1>1. AtField("year") /\ clState = "searching" /\ clField = "year"
    BY DEF ClYearList, ClYearRange, ClYearOne, ClBeyond, AtField
  <1>2. IsField(f) /\ f.values \subseteq 0..ClYears - 1 /\ f.from \in 0..ClYears - 1 /\ f.to \in 0..ClYears - 1
    BY <1>1, ScheduleFields
  <1>3. y \in Int /\ y \in Nat /\ ClYears \in Int
    BY TypesHere, Units
  <1>4. CASE ClYearList
    <2>1. f.kind = "list"
      BY <1>4 DEF ClYearList
    <2>2. (\A v : In(f, v) <=> v \in f.values) /\ f.values # {}
      BY <1>2, <2>1, FieldForms
    <2>3. CASE y \in f.values
      <3>1. FieldMatches /\ Matched("month")
        BY <1>1, <1>2, <1>3, <1>4, <2>2, <2>3 DEF ClYearList, FieldMatches
      <3> QED
        BY <1>1, <3>1, MatchedKeepsInv
    <2>4. CASE y \notin f.values
      <3>1. ClYearGone(Max(f.values))
        BY <1>4, <2>4 DEF ClYearList
      <3>2. Max(f.values) \in f.values /\ \A v \in f.values : v <= Max(f.values)
        BY <1>2, <2>2, GreatestYear
      <3>3. Max(f.values) \in Int /\ \A v \in Int : In(f, v) => v <= Max(f.values)
        BY <1>2, <1>3, <2>2, <3>2
      <3> QED
        BY <1>1, <2>2, <2>4, <3>1, <3>3, YearGoneKeepsInv
    <2> QED
      BY <2>3, <2>4
  <1>5. CASE ClYearRange
    <2>1. f.kind = "range"
      BY <1>5 DEF ClYearRange
    <2>2. (\A v \in Int : In(f, v) <=> f.from <= v /\ v <= f.to) /\ f.from \in Int /\ f.to \in Int
      BY <1>2, <2>1, FieldForms
    <2>3. CASE y \in f.from..f.to
      <3>1. In(f, y) /\ y < ClYears
        BY <1>2, <1>3, <2>2, <2>3
      <3>2. FieldMatches /\ Matched("month")
        BY <1>1, <1>5, <2>3, <3>1 DEF ClYearRange, FieldMatches
      <3> QED
        BY <1>1, <3>2, MatchedKeepsInv
    <2>4. CASE y \notin f.from..f.to
      <3>1. ClYearGone(f.to) /\ ~In(f, y)
        BY <1>3, <1>5, <2>2, <2>4 DEF ClYearRange
      <3>2. \A v \in Int : In(f, v) => v <= f.to
        BY <2>2
      <3> QED
        BY <1>1, <2>2, <3>1, <3>2, YearGoneKeepsInv
    <2> QED
      BY <2>3, <2>4
  <1>6. CASE ClYearOne
    <2>1. CASE f.kind = "one"
      <3>1. (\A v \in Int : In(f, v) <=> v = f.from) /\ f.from \in Int
        BY <1>2, <2>1, FieldForms
      <3>2. CASE y = f.from
        <4>1. In(f, y) /\ y < ClYears
          BY <1>2, <1>3, <3>1, <3>2
        <4>2. FieldMatches /\ Matched("month")
          BY <1>1, <1>6, <2>1, <3>2, <4>1 DEF ClYearOne, FieldMatches
        <4> QED
          BY <1>1, <4>2, MatchedKeepsInv
      <3>3. CASE y # f.from
        <4>1. ClYearGone(f.from) /\ ~In(f, y)
          BY <1>3, <1>6, <2>1, <3>1, <3>3 DEF ClYearOne
        <4>2. \A v \in Int : In(f, v) => v <= f.from
          BY <3>1
        <4> QED
          BY <1>1, <3>1, <4>1, <4>2, YearGoneKeepsInv
      <3> QED
        BY <3>2, <3>3
    <2>2. CASE f.kind # "one"
      <3>1. f.kind = "star" /\ y < ClYears /\ Matched("month")
        BY <1>6, <2>2 DEF ClYearOne
      <3>2. In(f, y)
        BY <3>1 DEF In
      <3>3. FieldMatches
        BY <1>1, <3>1, <3>2 DEF FieldMatches
      <3> QED
        BY <1>1, <3>1, <3>3, MatchedKeepsInv
    <2> QED
      BY <2>1, <2>2
  <1>7. CASE ClBeyond
    <2>1. ClReturns("beyond")
      BY <1>7 DEF ClBeyond
    <2> QED
      BY <1>1, <2>1, ReturnKeepsInv
  <1> QED
    BY <1>4, <1>5, <1>6, <1>7

\* What the three forms of an action ask for.
LEMMA FieldCases ==
    ASSUME NEW f, IsField(f), NEW v \in Int
    PROVE  /\ f.kind = "list" => (v \in f.values <=> In(f, v))
           /\ f.kind = "range" => (v \in f.from..f.to <=> In(f, v))
           /\ f.kind \in {"one", "star"} => (f.kind = "one" /\ v # f.from <=> ~In(f, v))
  <1>1. CASE f.kind = "list"
    BY <1>1, FieldForms
  <1>2. CASE f.kind = "range"
    <2>1. (\A w \in Int : In(f, w) <=> f.from <= w /\ w <= f.to) /\ f.from \in Int /\ f.to \in Int
      BY <1>2, FieldForms
    <2> QED
      BY <1>2, <2>1
  <1>3. CASE f.kind \in {"one", "star"}
    BY <1>3, FieldForms
  <1>4. CASE f.kind \notin {"list", "range", "one", "star"}
    BY <1>4
  <1> QED
    BY <1>1, <1>2, <1>3, <1>4

LEMMA MonthStep ==
    ASSUME CalendarInv, ClMonthList \/ ClMonthRange \/ ClMonthOne
    PROVE  CalendarInv'
  <1> DEFINE f == clSched.mon
             m == Here.mon
  <1>1. AtField("month") /\ clState = "searching" /\ clField = "month"
    BY DEF ClMonthList, ClMonthRange, ClMonthOne, AtField
  <1>2. IsField(f) /\ m \in Int
    BY <1>1, ScheduleFields, TypesHere
  <1>3. (In(f, m) /\ Matched("mday")) \/ (~In(f, m) /\ ClNextMonth)
    BY <1>2, FieldCases DEF ClMonthList, ClMonthRange, ClMonthOne
  <1>4. CASE In(f, m) /\ Matched("mday")
    <2>1. FieldMatches
      BY <1>1, <1>4 DEF FieldMatches
    <2> QED
      BY <1>1, <1>4, <2>1, MatchedKeepsInv
  <1> QED
    BY <1>1, <1>3, <1>4, NextMonthKeepsInv

LEMMA HourStep ==
    ASSUME CalendarInv, ClHourList \/ ClHourRange \/ ClHourOne
    PROVE  CalendarInv'
  <1> DEFINE f == clSched.hour
             h == Here.hour
  <1>1. AtField("hour") /\ clState = "searching" /\ clField = "hour"
    BY DEF ClHourList, ClHourRange, ClHourOne, AtField
  <1>2. IsField(f) /\ h \in Int
    BY <1>1, ScheduleFields, TypesHere
  <1>3. (In(f, h) /\ Matched("min")) \/ (~In(f, h) /\ ClNextHour)
    BY <1>2, FieldCases DEF ClHourList, ClHourRange, ClHourOne
  <1>4. Here.year < ClYears
    BY <1>1 DEF CalendarInv, SearchOK, FieldsMatch
  <1>5. CASE In(f, h) /\ Matched("min")
    <2>1. FieldMatches
      BY <1>1, <1>5 DEF FieldMatches
    <2> QED
      BY <1>1, <1>5, <2>1, MatchedKeepsInv
  <1> QED
    BY <1>1, <1>3, <1>4, <1>5, NextHourKeepsInv

LEMMA MinuteStep ==
    ASSUME CalendarInv, ClMinuteList \/ ClMinuteRange \/ ClMinuteOne
    PROVE  CalendarInv'
  <1> DEFINE f == clSched.min
             m == Here.min
  <1>1. AtField("min") /\ clState = "searching" /\ clField = "min"
    BY DEF ClMinuteList, ClMinuteRange, ClMinuteOne, AtField
  <1>2. IsField(f) /\ m \in Int
    BY <1>1, ScheduleFields, TypesHere
  <1>3. (In(f, m) /\ Matched("sec")) \/ (~In(f, m) /\ ClNextMinute)
    BY <1>2, FieldCases DEF ClMinuteList, ClMinuteRange, ClMinuteOne
  <1>4. Here.year < ClYears
    BY <1>1 DEF CalendarInv, SearchOK, FieldsMatch
  <1>5. CASE In(f, m) /\ Matched("sec")
    <2>1. FieldMatches
      BY <1>1, <1>5 DEF FieldMatches
    <2> QED
      BY <1>1, <1>5, <2>1, MatchedKeepsInv
  <1> QED
    BY <1>1, <1>3, <1>4, <1>5, NextMinuteKeepsInv

LEMMA SecondStep ==
    ASSUME CalendarInv, ClSecondList \/ ClSecondRange \/ ClSecondOne
    PROVE  CalendarInv'
  <1> DEFINE f == clSched.sec
             s == Here.sec
  <1>1. AtField("sec") /\ clState = "searching" /\ clField = "sec"
    BY DEF ClSecondList, ClSecondRange, ClSecondOne, AtField
  <1>2. IsField(f) /\ s \in Int
    BY <1>1, ScheduleFields, TypesHere
  <1>3. (In(f, s) /\ ClReturns("found")) \/ (~In(f, s) /\ ClNextSecond)
    BY <1>2, FieldCases DEF ClSecondList, ClSecondRange, ClSecondOne
  <1>4. Here.year < ClYears
    BY <1>1 DEF CalendarInv, SearchOK, FieldsMatch
  <1>5. CASE In(f, s) /\ ClReturns("found")
    BY <1>1, <1>5, ReturnKeepsInv
  <1> QED
    BY <1>1, <1>3, <1>4, <1>5, NextSecondKeepsInv

LEMMA DayStep ==
    ASSUME CalendarInv,
           \/ ClMonthDayList \/ ClMonthDayRange \/ ClMonthDayOne
           \/ ClWeekDayList \/ ClWeekDayRange \/ ClWeekDayOne \/ ClDayMatches \/ ClNextDay
    PROVE  CalendarInv'
  <1>1. CASE ClMonthDayList \/ ClMonthDayRange \/ ClMonthDayOne
    <2> DEFINE f == clSched.mday
               d == Here.mday
    <2>1. AtField("mday") /\ clState = "searching"
      BY <1>1 DEF ClMonthDayList, ClMonthDayRange, ClMonthDayOne, AtField
    <2>2. IsField(f) /\ d \in Int
      BY <2>1, ScheduleFields, TypesHere
    <2>3. CASE ClMonthDayList
      <3>1. f.kind = "list" /\ DayField(1, d \notin f.values, "wday")
        BY <2>3 DEF ClMonthDayList
      <3> QED
        BY <2>1, <2>2, <3>1, FieldCases, MonthDayKeepsInv
    <2>4. CASE ClMonthDayRange
      <3>1. f.kind = "range" /\ DayField(1, d \notin f.from..f.to, "wday")
        BY <2>4 DEF ClMonthDayRange
      <3> QED
        BY <2>1, <2>2, <3>1, FieldCases, MonthDayKeepsInv
    <2>5. CASE ClMonthDayOne
      <3>1. f.kind \in {"one", "star"} /\ DayField(1, f.kind = "one" /\ d # f.from, "wday")
        BY <2>5 DEF ClMonthDayOne
      <3> QED
        BY <2>1, <2>2, <3>1, FieldCases, MonthDayKeepsInv
    <2> QED
      BY <1>1, <2>3, <2>4, <2>5
  <1>2. CASE ClWeekDayList \/ ClWeekDayRange \/ ClWeekDayOne
    <2> DEFINE f == clSched.wday
               d == Here.wday
    <2>1. AtField("wday") /\ clState = "searching"
      BY <1>2 DEF ClWeekDayList, ClWeekDayRange, ClWeekDayOne, AtField
    <2>2. IsField(f) /\ d \in Int
      BY <2>1, ScheduleFields, TypesHere
    <2>3. CASE ClWeekDayList
      <3>1. f.kind = "list" /\ DayField(2, d \notin f.values, "day")
        BY <2>3 DEF ClWeekDayList
      <3> QED
        BY <2>1, <2>2, <3>1, FieldCases, WeekDayKeepsInv
    <2>4. CASE ClWeekDayRange
      <3>1. f.kind = "range" /\ DayField(2, d \notin f.from..f.to, "day")
        BY <2>4 DEF ClWeekDayRange
      <3> QED
        BY <2>1, <2>2, <3>1, FieldCases, WeekDayKeepsInv
    <2>5. CASE ClWeekDayOne
      <3>1. f.kind \in {"one", "star"} /\ DayField(2, f.kind = "one" /\ d # f.from, "day")
        BY <2>5 DEF ClWeekDayOne
      <3> QED
        BY <2>1, <2>2, <3>1, FieldCases, WeekDayKeepsInv
    <2> QED
      BY <1>2, <2>3, <2>4, <2>5
  <1>3. CASE ClDayMatches
    <2>1. AtField("day") /\ clState = "searching" /\ clField = "day" /\ ~ClAddDayNeeded /\ Matched("hour")
      BY <1>3 DEF ClDayMatches, AtField
    <2>2. FieldMatches
      BY <2>1, DayDecided DEF FieldMatches
    <2> QED
      BY <2>1, <2>2, MatchedKeepsInv
  <1> QED
    BY <1>1, <1>2, <1>3, NextDayKeepsInv
LEMMA CalendarInitial == ClInit => CalendarInv
  <1> SUFFICES ASSUME ClInit PROVE CalendarInv
    OBVIOUS
  <1>1. clState = "builded" /\ clCurrent = 0 /\ clAt = 0 /\ clField = "year" /\ clAddDay = <<FALSE, FALSE>> /\ clAmbiguous = FALSE
    BY DEF ClInit, NoSearch
  <1>2. 0 \in DOMAIN LocalOf
    BY Units DEF LocalOf
  <1>3. ClTypeOK
    BY <1>1, <1>2 DEF ClTypeOK
  <1> QED
    BY <1>1, <1>3 DEF CalendarInv, FindsNextDate, LastTimeoutIsLast, SearchOK

\* A search begins with the second after the current date.
LEMMA SearchKeepsInv ==
    ASSUME CalendarInv, clSched \in ClSchedules, NEW u \in 0..ClHorizon, ClSearch(u)
    PROVE  CalendarInv'
  <1>1. /\ clCurrent' = u /\ clAt' = u + 1 /\ clState' = "searching" /\ clSched' = clSched
        /\ clField' = "year" /\ clAddDay' = <<FALSE, FALSE>> /\ clAmbiguous' = FALSE
    BY DEF ClSearch, NoSearchNext
  <1>2. u \in Int /\ u + 1 \in Int /\ u \in DOMAIN LocalOf /\ u + 1 \in DOMAIN LocalOf
    <2>1. ClHorizon \in Nat /\ ClDay \in Nat \ {0}
      BY Units
    <2> QED
      BY <2>1 DEF LocalOf
  <1>3. ClTypeOK'
    BY <1>1, <1>2 DEF ClTypeOK
  <1>4. FindsNextDate' /\ LastTimeoutIsLast'
    BY <1>1 DEF FindsNextDate, LastTimeoutIsLast
  <1>5. FieldsMatch'
    BY <1>1 DEF FieldsMatch
  <1>6. NonePassed'
    <2>1. DatesBetween(clSched, u, u + 1) = {}
      BY <1>2 DEF DatesBetween
    <2> QED
      BY <1>1, <1>2, <2>1 DEF NonePassed
  <1>7. SearchOK'
    BY <1>1, <1>5, <1>6 DEF SearchOK
  <1> QED
    BY <1>3, <1>4, <1>7 DEF CalendarInv

LEMMA CalendarStep == CalendarInv /\ [ClNext]_clVars => CalendarInv'
  <1> SUFFICES ASSUME CalendarInv, [ClNext]_clVars PROVE CalendarInv'
    OBVIOUS
  <1>1. ASSUME NEW s \in ClSchedules, ClConstruct(s) PROVE CalendarInv'
    <2>1. /\ clSched' = s /\ clState' = "initialized"
          /\ UNCHANGED <<clCurrent, clAt, clField, clAddDay, clAmbiguous>>
      BY <1>1 DEF ClConstruct
    <2>2. ClTypeOK'
      BY <2>1 DEF CalendarInv, ClTypeOK
    <2> QED
      BY <2>1, <2>2 DEF CalendarInv, FindsNextDate, LastTimeoutIsLast, SearchOK
  <1>2. ASSUME NEW u \in ClStarts, ClStart(u) PROVE CalendarInv'
    <2>1. clSched \in ClSchedules /\ ClSearch(u)
      BY <1>2 DEF ClStart, CalendarInv, ClTypeOK
    <2>2. u \in 0..ClHorizon
      BY ScheduleAssumption
    <2> QED
      BY <2>1, <2>2, SearchKeepsInv
  <1>3. CASE ClUpdate
    <2>1. clSched \in ClSchedules /\ ClSearch(clAt) /\ Here.year < ClYears
      BY <1>3 DEF ClUpdate, CalendarInv, ClTypeOK, SearchOK
    <2>2. clAt \in Instants /\ clAt \in Nat /\ LocalOf[clAt].year < ClYears
      BY <2>1, TypesHere
    <2>3. clAt < ClHorizon /\ ClHorizon \in Nat
      BY <2>2, InYears, Units
    <2>4. clAt \in 0..ClHorizon
      BY <2>2, <2>3
    <2> QED
      BY <2>1, <2>4, SearchKeepsInv
  <1>4. CASE ClDestroy
    <2>1. /\ clState' = "builded" /\ clCurrent' = 0 /\ clAt' = 0
          /\ clField' = "year" /\ clAddDay' = <<FALSE, FALSE>> /\ clAmbiguous' = FALSE
      BY <1>4 DEF ClDestroy, NoSearchNext
    <2>2. 0 \in DOMAIN LocalOf
      BY Units DEF LocalOf
    <2>3. ClTypeOK'
      BY <2>1, <2>2 DEF ClTypeOK
    <2> QED
      BY <2>1, <2>3 DEF CalendarInv, FindsNextDate, LastTimeoutIsLast, SearchOK
  <1>5. CASE ClStep
    BY <1>5, YearStep, MonthStep, DayStep, HourStep, MinuteStep, SecondStep DEF ClStep
  <1>6. CASE UNCHANGED clVars
    <2>1. /\ clSched' = clSched /\ clCurrent' = clCurrent /\ clAt' = clAt /\ clState' = clState /\ clField' = clField
          /\ clAddDay' = clAddDay /\ clAmbiguous' = clAmbiguous
      BY <1>6 DEF clVars
    <2>2. ClTypeOK' /\ FindsNextDate' /\ LastTimeoutIsLast'
      BY <2>1 DEF CalendarInv, ClTypeOK, FindsNextDate, LastTimeoutIsLast
    <2>3. SearchOK'
      BY <2>1 DEF CalendarInv, SearchOK, FieldsMatch, NonePassed, Here
    <2> QED
      BY <2>2, <2>3 DEF CalendarInv
  <1>7. CASE ClGoesOn
    BY <1>6, <1>7 DEF ClGoesOn
  <1> QED
    BY <1>1, <1>2, <1>3, <1>4, <1>5, <1>6, <1>7 DEF ClNext

\* Times2::updateNextCalendarExpirationDateTime finds the first date of the schedule after the current one and passes
\* none over, on the days with a change of the clock as well, and answers SCH_REACHED_LASTTIMEOUT only when no date is
\* left: for every calendar, every schedule with years of the model, and every start.
THEOREM CalendarFindsDates == ClSpec => []CalendarRight
  <1>1. CalendarInv => CalendarRight
    BY DEF CalendarInv, CalendarRight
  <1> QED
    BY <1>1, CalendarInitial, CalendarStep, PTL DEF ClSpec

\* The calendar of the first version is the same one.
LEMMA OneCalendar ==
    /\ First!ClMonths = ClMonths /\ First!ClMinute = ClMinute /\ First!ClHour = ClHour /\ First!ClDay = ClDay
    /\ First!LocalOf = LocalOf
    /\ \A w : First!MkTime(w) = MkTime(w)
    /\ \A y, m : First!BeginOfMonth(y, m) = BeginOfMonth(y, m)
    /\ \A f, v : First!In(f, v) <=> In(f, v)
  <1>1. First!ClMonths = ClMonths /\ First!ClMinute = ClMinute
    BY DEF First!ClMonths, ClMonths, First!ClMinute, ClMinute
  <1>2. First!ClHour = ClHour
    BY <1>1 DEF First!ClHour, ClHour
  <1>3. First!ClDay = ClDay
    BY <1>2 DEF First!ClDay, ClDay
  <1>4. First!DaysBefore = DaysBefore
    BY <1>1 DEF First!DaysBefore, DaysBefore
  <1>5. First!ClYear = ClYear
    BY <1>1, <1>3, <1>4 DEF First!ClYear, ClYear
  <1>6. First!ClHorizon = ClHorizon
    BY <1>5 DEF First!ClHorizon, ClHorizon
  <1>7. \A w, dst : First!BrokenDown(w, dst) = BrokenDown(w, dst)
    BY <1>1, <1>2, <1>3, <1>4, <1>5, Zenon DEF First!BrokenDown, BrokenDown
  <1>8. \A u : First!InDst(u) <=> InDst(u)
    BY DEF First!InDst, InDst
  <1>9. First!LocalOf = LocalOf
    BY <1>2, <1>3, <1>6, <1>7, <1>8 DEF First!LocalOf, LocalOf
  <1>10. \A w : First!MkTime(w) = MkTime(w)
    BY <1>2, <1>9 DEF First!MkTime, MkTime
  <1>11. \A y, m : First!BeginOfMonth(y, m) = BeginOfMonth(y, m)
    BY <1>3, <1>4, <1>5 DEF First!BeginOfMonth, BeginOfMonth
  <1>12. \A f, v : First!In(f, v) <=> In(f, v)
    BY DEF First!In, In
  <1> QED
    BY <1>1, <1>2, <1>3, <1>9, <1>10, <1>11, <1>12

LEMMA SmallestOf ==
    ASSUME NEW S, S # {}, NEW a \in Nat, NEW b, S \subseteq a..b
    PROVE  Min(S) \in S /\ \A x \in S : Min(S) <= x
  <1>1. S \subseteq Nat
    BY SMT
  <1>2. \E m \in S : \A x \in S : m <= x
    BY <1>1, LeastInstant
  <1> QED
    BY <1>2 DEF Min

\* The constructor accepts no schedule that init refused.
LEMMA AcceptsLess ==
    ASSUME NEW s \in ClSchedules, ClAccepts(s)
    PROVE  First!CtAccepts(s)
  <1>1. /\ IsField(s.year) /\ IsField(s.mon) /\ IsField(s.mday) /\ IsField(s.wday)
        /\ IsField(s.hour) /\ IsField(s.min) /\ IsField(s.sec)
    BY ScheduleAssumption
  <1>2. ASSUME NEW f, IsField(f), NEW a \in Int, NEW b \in Int, Within(f, a, b)
        PROVE  First!ListIn(f, a, b) /\ First!RangeIn(f, a, b) /\ First!OneIn(f, a, b)
    <2>1. CASE f.kind = "list"
      <3>1. f.values \subseteq a..b
        BY <1>2, <2>1 DEF Within
      <3> QED
        BY <2>1, <3>1 DEF First!ListIn, First!RangeIn, First!OneIn
    <2>2. CASE f.kind = "range"
      <3>1. ~(f.from < a \/ f.from > f.to) /\ ~(f.to > b) /\ f.from \in Int /\ f.to \in Int
        BY <1>2, <2>2, FieldForms DEF Within
      <3> QED
        BY <2>2, <3>1 DEF First!ListIn, First!RangeIn, First!OneIn
    <2>3. CASE f.kind = "one"
      <3>1. f.from \in a..b
        BY <1>2, <2>3 DEF Within
      <3> QED
        BY <2>3, <3>1 DEF First!ListIn, First!RangeIn, First!OneIn
    <2>4. CASE f.kind = "star"
      BY <2>4 DEF First!ListIn, First!RangeIn, First!OneIn
    <2> QED
      BY <1>2, <2>1, <2>2, <2>3, <2>4, FieldForms
  <1>3. 0 \in Int /\ 1 \in Int
        /\ ClMonths \in Int /\ ClWeek - 1 \in Int /\ ClHours - 1 \in Int /\ ClMinutes - 1 \in Int /\ ClSeconds - 1 \in Int
        /\ ClThirty \in Int /\ ClThirtyOne \in Int
    BY Units, DaysBeforeSums, CalendarAssumption
  <1>4. First!CtMonthList(s) /\ First!CtMonthRange(s) /\ First!CtMonthOne(s)
    <2>1. Within(s.mon, 1, ClMonths)
      BY DEF ClAccepts, ClMonthAccepted
    <2>2. First!ListIn(s.mon, 1, ClMonths) /\ First!RangeIn(s.mon, 1, ClMonths) /\ First!OneIn(s.mon, 1, ClMonths)
      BY <1>1, <1>2, <1>3, <2>1, Zenon
    <2> QED
      BY <2>2, OneCalendar DEF First!CtMonthList, First!CtMonthRange, First!CtMonthOne
  <1>5. First!CtWeekDayList(s) /\ First!CtWeekDayRange(s) /\ First!CtWeekDayOne(s)
    <2>1. Within(s.wday, 0, ClWeek - 1)
      BY DEF ClAccepts, ClWeekDayAccepted
    <2>2. First!ListIn(s.wday, 0, ClWeek - 1) /\ First!RangeIn(s.wday, 0, ClWeek - 1) /\ First!OneIn(s.wday, 0, ClWeek - 1)
      BY <1>1, <1>2, <1>3, <2>1, Zenon
    <2> QED
      BY <2>2 DEF First!CtWeekDayList, First!CtWeekDayRange, First!CtWeekDayOne
  <1>6. First!CtHourList(s) /\ First!CtHourRange(s) /\ First!CtHourOne(s)
    <2>1. Within(s.hour, 0, ClHours - 1)
      BY DEF ClAccepts, ClHourAccepted
    <2>2. First!ListIn(s.hour, 0, ClHours - 1) /\ First!RangeIn(s.hour, 0, ClHours - 1) /\ First!OneIn(s.hour, 0, ClHours - 1)
      BY <1>1, <1>2, <1>3, <2>1, Zenon
    <2> QED
      BY <2>2 DEF First!CtHourList, First!CtHourRange, First!CtHourOne
  <1>7. First!CtMinuteList(s) /\ First!CtMinuteRange(s) /\ First!CtMinuteOne(s)
    <2>1. Within(s.min, 0, ClMinutes - 1)
      BY DEF ClAccepts, ClMinuteAccepted
    <2>2. First!ListIn(s.min, 0, ClMinutes - 1) /\ First!RangeIn(s.min, 0, ClMinutes - 1) /\ First!OneIn(s.min, 0, ClMinutes - 1)
      BY <1>1, <1>2, <1>3, <2>1, Zenon
    <2> QED
      BY <2>2 DEF First!CtMinuteList, First!CtMinuteRange, First!CtMinuteOne
  <1>8. First!CtSecondList(s) /\ First!CtSecondRange(s) /\ First!CtSecondOne(s)
    <2>1. Within(s.sec, 0, ClSeconds - 1)
      BY DEF ClAccepts, ClSecondAccepted
    <2>2. First!ListIn(s.sec, 0, ClSeconds - 1) /\ First!RangeIn(s.sec, 0, ClSeconds - 1) /\ First!OneIn(s.sec, 0, ClSeconds - 1)
      BY <1>1, <1>2, <1>3, <2>1, Zenon
    <2> QED
      BY <2>2 DEF First!CtSecondList, First!CtSecondRange, First!CtSecondOne
  <1>9. First!FebruaryEveryYear(s) => LoopsInFebruary(s)
    <2>1. s.year.kind = "star" => s.year = Star
      BY <1>1, FieldForms
    <2>2. s.mon.kind = "one" => s.mon = One(s.mon.from)
      BY <1>1, FieldForms
    <2> QED
      BY <2>1, <2>2 DEF First!FebruaryEveryYear, LoopsInFebruary
  <1>10. First!CtMonthDayList(s)
    <2>1. s.mday.kind = "list" => s.mday.values \subseteq 1..ClThirtyOne
      BY DEF ClAccepts, ClMonthDayListAccepted, Within
    <2>2. ASSUME s.mday.kind = "list", First!FebruaryEveryYear(s)
          PROVE  \E v \in s.mday.values : v <= ClThirty
      <3>1. ~(Min(s.mday.values) > ClThirty)
        BY <1>9, <2>2 DEF ClAccepts, ClMonthDayListAccepted
      <3>2. s.mday.values # {}
        BY <1>1, <2>2, FieldForms
      <3>3. Min(s.mday.values) \in s.mday.values
        BY <2>1, <2>2, <3>2, SmallestOf
      <3>4. Min(s.mday.values) \in Int
        BY <2>1, <2>2, <3>3
      <3> QED
        BY <1>3, <3>1, <3>3, <3>4
    <2> QED
      BY <2>1, <2>2 DEF First!CtMonthDayList, First!ListIn
  <1>11. First!CtMonthDayRange(s)
    <2>1. s.mday.kind = "range" => Within(s.mday, 1, ClThirtyOne)
      BY DEF ClAccepts, ClMonthDayRangeAccepted
    <2>2. First!RangeIn(s.mday, 1, ClThirtyOne)
      BY <1>1, <1>2, <1>3, <2>1 DEF First!RangeIn
    <2>3. s.mday.kind = "range" => s.mday = RangeOf(s.mday.from, s.mday.to)
      BY <1>1, FieldForms
    <2> QED
      BY <1>9, <2>2, <2>3 DEF ClAccepts, ClMonthDayRangeAccepted, First!CtMonthDayRange
  <1>12. First!CtMonthDayOne(s)
    BY <1>3, <1>9 DEF ClAccepts, ClMonthDayOneAccepted, First!CtMonthDayOne, First!OneIn
  <1>13. First!CtSixSpaces(s)
    BY DEF ClAccepts, ClSixSpaces, First!CtSixSpaces
  <1> QED
    BY <1>4, <1>5, <1>6, <1>7, <1>8, <1>10, <1>11, <1>12, <1>13, Zenon DEF First!CtAccepts

LEMMA FirstInitial == ClInit => First!CtInitial
  BY DEF ClInit, First!CtInitial, NoSearch

FirstStep == First!CtNext \/ UNCHANGED First!ctVars

\* A step of the search that only goes over to the next field does not show in the first version.
LEMMA HiddenStep ==
    ASSUME UNCHANGED <<clObject, clAt, clState>>
    PROVE  FirstStep
  BY DEF clObject, FirstStep, First!ctVars

LEMMA MoveShows ==
    ASSUME UNCHANGED <<clObject, clState>>, NEW S, clAt' \in S
    PROVE  First!MovesTo(S)
  BY DEF clObject, First!MovesTo

LEMMA EndShows ==
    ASSUME NEW state, ClReturns(state), state # "last"
    PROVE  First!Ends(state)
  BY DEF clObject, First!Ends, ClReturns

LEMMA LastShows ==
    ASSUME ClReturns("last")
    PROVE  First!Ends("initialized")
  BY DEF clObject, First!Ends, ClReturns

LEMMA TurnShows ==
    ASSUME clState = "searching", First!CtTurn
    PROVE  FirstStep
  BY DEF FirstStep, First!CtNext

LEMMA YearPassesShows ==
    ASSUME CalendarInv, NEW last, ClYearGone(last)
    PROVE  First!YearPasses(last)
  <1>1. First!CtHere = Here
    BY OneCalendar DEF First!CtHere, Here
  <1>2. CASE last < Here.year
    BY <1>1, <1>2, LastShows DEF ClYearGone, First!YearPasses
  <1>3. CASE ~(last < Here.year)
    <2>1. clAt' \in MkTime(BeginOfMonth(Here.year + 1, 1)) /\ UNCHANGED <<clObject, clState>>
      BY <1>3 DEF ClYearGone, ClNextYear, ClMoves
    <2>2. First!MovesTo(MkTime(BeginOfMonth(Here.year + 1, 1)))
      BY <2>1, MoveShows
    <2> QED
      BY <1>1, <1>3, <2>2, OneCalendar DEF First!YearPasses
  <1> QED
    BY <1>2, <1>3

LEMMA YearShows ==
    ASSUME CalendarInv, ClYearList \/ ClYearRange \/ ClYearOne \/ ClBeyond
    PROVE  FirstStep
  <1> DEFINE f == clSched.year
             y == Here.year
  <1>1. AtField("year") /\ clState = "searching"
    BY DEF ClYearList, ClYearRange, ClYearOne, ClBeyond, AtField
  <1>2. IsField(f) /\ y \in Int /\ First!CtHere = Here
    BY <1>1, ScheduleFields, TypesHere, OneCalendar DEF First!CtHere, Here
  <1>3. CASE Matched("month")
    BY <1>3, HiddenStep DEF Matched
  <1>4. CASE ~Matched("month")
    <2>1. CASE ClYearList
      <3>1. f.kind = "list" /\ y \notin f.values /\ ClYearGone(Max(f.values))
        BY <1>4, <2>1 DEF ClYearList
      <3>2. First!YearPasses(First!Max(f.values))
        BY <3>1, YearPassesShows DEF Max, First!Max
      <3>3. First!CtYearList
        BY <1>2, <3>1, <3>2 DEF First!CtYearList
      <3> QED
        BY <1>1, <3>3, TurnShows DEF First!CtTurn
    <2>2. CASE ClYearRange
      <3>1. f.kind = "range" /\ y \notin f.from..f.to /\ ClYearGone(f.to)
        BY <1>4, <2>2 DEF ClYearRange
      <3>2. f.from \in Int /\ f.to \in Int
        BY <1>2, <3>1, FieldForms
      <3>3. ~(f.from <= y /\ y <= f.to)
        BY <1>2, <3>1, <3>2
      <3>4. First!CtYearRange
        BY <1>2, <3>1, <3>3, YearPassesShows DEF First!CtYearRange
      <3> QED
        BY <1>1, <3>4, TurnShows DEF First!CtTurn
    <2>3. CASE ClYearOne
      <3>1. f.kind = "one" /\ y # f.from /\ ClYearGone(f.from)
        BY <1>4, <2>3 DEF ClYearOne
      <3>2. First!CtYearOne
        BY <1>2, <3>1, YearPassesShows DEF First!CtYearOne
      <3> QED
        BY <1>1, <3>2, TurnShows DEF First!CtTurn
    <2>4. CASE ClBeyond
      <3>1. f.kind = "star" /\ y >= ClYears /\ First!Ends("beyond")
        BY <2>4, EndShows DEF ClBeyond
      <3>2. First!CtBeyond
        BY <1>2, <3>1 DEF First!CtBeyond
      <3> QED
        BY <1>1, <3>2, TurnShows DEF First!CtTurn
    <2> QED
      BY <2>1, <2>2, <2>3, <2>4
  <1> QED
    BY <1>3, <1>4

\* The conditions of a turn are those of the fields before.
LEMMA YearFits ==
    ASSUME CalendarInv, clState = "searching", clField # "year"
    PROVE  First!CtYearFits
  <1>1. In(clSched.year, Here.year) /\ Here.year < ClYears
    BY DEF CalendarInv, SearchOK, FieldsMatch
  <1>2. First!CtHere = Here
    BY OneCalendar DEF First!CtHere, Here
  <1> QED
    BY <1>1, <1>2, OneCalendar DEF First!CtYearFits

LEMMA MonthFits ==
    ASSUME CalendarInv, clState = "searching", clField \notin {"year", "month"}
    PROVE  First!CtMonthFits
  <1>1. In(clSched.mon, Here.mon)
    BY DEF CalendarInv, SearchOK, FieldsMatch
  <1>2. First!CtHere = Here
    BY OneCalendar DEF First!CtHere, Here
  <1> QED
    BY <1>1, <1>2, OneCalendar, YearFits DEF First!CtMonthFits

\* What a field refuses, in the three forms of the first version.
LEMMA NotInField ==
    ASSUME NEW f, IsField(f), NEW v \in Int
    PROVE  ~In(f, v) <=> First!NotInList(f, v) \/ First!NotInRange(f, v) \/ First!NotOne(f, v)
  <1>1. CASE f.kind = "star"
    BY <1>1, FieldForms DEF First!NotInList, First!NotInRange, First!NotOne
  <1>2. CASE f.kind = "list"
    BY <1>2, FieldForms DEF First!NotInList, First!NotInRange, First!NotOne
  <1>3. CASE f.kind = "range"
    BY <1>3, FieldForms DEF First!NotInList, First!NotInRange, First!NotOne
  <1>4. CASE f.kind = "one"
    BY <1>4, FieldForms DEF First!NotInList, First!NotInRange, First!NotOne
  <1> QED
    BY <1>1, <1>2, <1>3, <1>4, FieldForms

LEMMA AddDayShows ==
    ASSUME CalendarInv, clState = "searching"
    PROVE  First!CtAddDay <=> ~DayMatches(clSched, Here)
  <1>1. First!CtHere = Here /\ IsField(clSched.mday) /\ IsField(clSched.wday) /\ Here.mday \in Int /\ Here.wday \in Int
    BY ScheduleFields, TypesHere, OneCalendar DEF First!CtHere, Here
  <1>2. First!CtAddForMonthDay <=> ~In(clSched.mday, Here.mday)
    BY <1>1, NotInField DEF First!CtAddForMonthDay
  <1>3. First!CtAddForWeekDay <=> ~In(clSched.wday, Here.wday)
    BY <1>1, NotInField DEF First!CtAddForWeekDay
  <1>4. /\ clSched.mday.kind = "star" => In(clSched.mday, Here.mday)
        /\ clSched.wday.kind = "star" => In(clSched.wday, Here.wday)
    BY DEF In
  <1> QED
    BY <1>2, <1>3, <1>4 DEF First!CtAddDay, DayMatches

LEMMA DayFits ==
    ASSUME CalendarInv, clState = "searching", clField \in {"hour", "min", "sec"}
    PROVE  First!CtDayFits
  <1>1. DayMatches(clSched, Here)
    BY DEF CalendarInv, SearchOK, FieldsMatch
  <1> QED
    BY <1>1, AddDayShows, MonthFits DEF First!CtDayFits

LEMMA HourFits ==
    ASSUME CalendarInv, clState = "searching", clField \in {"min", "sec"}
    PROVE  First!CtHourFits
  <1>1. In(clSched.hour, Here.hour)
    BY DEF CalendarInv, SearchOK, FieldsMatch
  <1>2. First!CtHere = Here
    BY OneCalendar DEF First!CtHere, Here
  <1> QED
    BY <1>1, <1>2, OneCalendar, DayFits DEF First!CtHourFits

LEMMA MinuteFits ==
    ASSUME CalendarInv, clState = "searching", clField = "sec"
    PROVE  First!CtMinuteFits
  <1>1. In(clSched.min, Here.min)
    BY DEF CalendarInv, SearchOK, FieldsMatch
  <1>2. First!CtHere = Here
    BY OneCalendar DEF First!CtHere, Here
  <1> QED
    BY <1>1, <1>2, OneCalendar, HourFits DEF First!CtMinuteFits
LEMMA MonthShows ==
    ASSUME CalendarInv, ClMonthList \/ ClMonthRange \/ ClMonthOne
    PROVE  FirstStep
  <1> DEFINE f == clSched.mon
             m == Here.mon
  <1>1. clState = "searching" /\ clField = "month"
    BY DEF ClMonthList, ClMonthRange, ClMonthOne, AtField
  <1>2. IsField(f) /\ m \in Int /\ First!CtHere = Here
    BY <1>1, ScheduleFields, TypesHere, OneCalendar DEF First!CtHere, Here
  <1>3. Matched("mday") \/ (~In(f, m) /\ ClNextMonth)
    BY <1>2, FieldCases DEF ClMonthList, ClMonthRange, ClMonthOne
  <1>4. CASE Matched("mday")
    BY <1>4, HiddenStep DEF Matched
  <1>5. CASE ~In(f, m) /\ ClNextMonth
    <2>1. /\ clAt' \in MkTime(IF m = ClMonths THEN BeginOfMonth(Here.year + 1, 1) ELSE BeginOfMonth(Here.year, m + 1))
          /\ UNCHANGED <<clObject, clState>>
      BY <1>5 DEF ClNextMonth, ClMoves
    <2>2. First!NextMonth
      BY <1>2, <2>1, MoveShows, OneCalendar DEF First!NextMonth
    <2>3. First!CtYearFits
      BY <1>1, YearFits
    <2>4. First!NotInList(f, m) \/ First!NotInRange(f, m) \/ First!NotOne(f, m)
      BY <1>2, <1>5, NotInField
    <2>5. First!CtSkipMonthList \/ First!CtSkipMonthRange \/ First!CtSkipMonthOne
      BY <1>2, <2>2, <2>3, <2>4
         DEF First!CtSkipMonthList, First!CtSkipMonthRange, First!CtSkipMonthOne,
             First!NotInList, First!NotInRange, First!NotOne
    <2> QED
      BY <1>1, <2>5, TurnShows DEF First!CtTurn
  <1> QED
    BY <1>3, <1>4, <1>5

LEMMA DayAfterIs ==
    ASSUME NEW u \in Int, NEW d \in Int, DayBegins(u, d)
    PROVE  First!DayAfter(u) = d
  <1> DEFINE h == LocalOf[u + ClDay].hour
  <1>1. 2 < ClHours /\ ClHours \in Nat /\ ClDay \in Int /\ ClHour \in Int
    BY HoursDiffer, Units
  <1>2. h \in {0, 1, ClHours - 1} /\ (h = 0 => d = u + ClDay)
        /\ (h = 1 => d = (u + ClDay) - ClHour) /\ (h = ClHours - 1 => d = u + ClDay + ClHour)
    BY <1>1 DEF DayBegins
  <1>3. First!DayAfter(u) = u + ClDay + (CASE h = 0 -> 0 [] h = ClHours - 1 -> ClHour [] h = 1 -> 0 - ClHour)
    BY OneCalendar DEF First!DayAfter
  <1> HIDE DEF h
  <1>4. CASE h = 0
    BY <1>1, <1>2, <1>3, <1>4
  <1>5. CASE h = 1
    BY <1>1, <1>2, <1>3, <1>5
  <1>6. CASE h = ClHours - 1
    BY <1>1, <1>2, <1>3, <1>6
  <1> QED
    BY <1>2, <1>4, <1>5, <1>6

LEMMA NextDayShows ==
    ASSUME CalendarInv, ClNextDay
    PROVE  FirstStep
  <1> DEFINE w == Here.wall - (Here.wall % ClDay)
  <1>1. AtField("day") /\ ClAddDayNeeded /\ clState = "searching" /\ clField = "day"
    BY DEF ClNextDay, AtField
  <1>2. clAt \in Instants /\ ClWall(clAt) = Here.wall /\ Here = LocalOf[clAt] /\ First!CtHere = Here
    BY TypesHere, OneCalendar DEF First!CtHere, Here
  <1>3. PICK x \in MkTime(w) :
            clAt' = LET h == LocalOf[x + ClDay].hour
                    IN CASE h = 0 -> x + ClDay
                         [] h = ClHours - 1 -> x + ClDay + ClHour
                         [] h = 1 -> x + ClDay - ClHour
    BY DEF ClNextDay, ClMoves
  <1>4. UNCHANGED <<clObject, clState>>
    BY DEF ClNextDay, ClMoves
  <1>5. LocalOf[clAt].year < ClYears
    BY <1>1, <1>2 DEF CalendarInv, SearchOK, FieldsMatch
  <1>6. PICK d \in Instants : DayBegins(x, d)
    BY <1>2, <1>5, DayJump
  <1>7. d \in Int /\ x \in Int
    BY DEF Instants, MkTime, LocalOf
  <1>8. clAt' = First!DayAfter(x)
    <2> HIDE DEF w
    <2>1. clAt' = d
      BY <1>3, <1>6, <1>7, NextDayIs
    <2>2. First!DayAfter(x) = d
      BY <1>6, <1>7, DayAfterIs
    <2> QED
      BY <2>1, <2>2
  <1>9. First!MovesTo({First!DayAfter(u) : u \in MkTime(w)})
    BY <1>4, <1>8, MoveShows
  <1>10. First!CtMonthFits /\ First!CtAddDay
    BY <1>1, MonthFits, AddDayShows, DayDecided
  <1>11. First!MkTime(First!CtHere.wall - (First!CtHere.wall % First!ClDay)) = MkTime(w)
    BY <1>2, OneCalendar
  <1>12. First!CtSkipDay
    BY <1>9, <1>10, <1>11 DEF First!CtSkipDay
  <1> QED
    BY <1>1, <1>12, TurnShows DEF First!CtTurn

LEMMA HourShows ==
    ASSUME CalendarInv, ClHourList \/ ClHourRange \/ ClHourOne
    PROVE  FirstStep
  <1> DEFINE f == clSched.hour
             h == Here.hour
             w == Here.wall - (Here.wall % ClHour)
  <1>1. clState = "searching" /\ clField = "hour"
    BY DEF ClHourList, ClHourRange, ClHourOne, AtField
  <1>2. IsField(f) /\ h \in Int /\ First!CtHere = Here
    BY <1>1, ScheduleFields, TypesHere, OneCalendar DEF First!CtHere, Here
  <1>3. Matched("min") \/ (~In(f, h) /\ ClNextHour)
    BY <1>2, FieldCases DEF ClHourList, ClHourRange, ClHourOne
  <1>4. CASE Matched("min")
    BY <1>4, HiddenStep DEF Matched
  <1>5. CASE ~In(f, h) /\ ClNextHour
    <2>1. PICK x \in MkTime(w) :
              clAt' = IF LocalOf[x + ClHour].hour = h THEN x + 2 * ClHour ELSE x + ClHour
      BY <1>5 DEF ClNextHour, ClMoves
    <2>2. UNCHANGED <<clObject, clState>>
      BY <1>5 DEF ClNextHour, ClMoves
    <2>3. clAt' = First!HourAfter(x)
      BY <1>2, <2>1, OneCalendar DEF First!HourAfter
    <2>4. First!MovesTo({First!HourAfter(u) : u \in MkTime(w)})
      BY <2>2, <2>3, MoveShows
    <2>5. First!MkTime(First!CtHere.wall - (First!CtHere.wall % First!ClHour)) = MkTime(w)
      BY <1>2, OneCalendar
    <2>6. First!NextHour
      BY <2>4, <2>5 DEF First!NextHour
    <2>7. First!NotInList(f, h) \/ First!NotInRange(f, h) \/ First!NotOne(f, h)
      BY <1>2, <1>5, NotInField
    <2>8. First!CtSkipHourList \/ First!CtSkipHourRange \/ First!CtSkipHourOne
      BY <1>1, <1>2, <2>6, <2>7, DayFits DEF First!CtSkipHourList, First!CtSkipHourRange, First!CtSkipHourOne
    <2> QED
      BY <1>1, <2>8, TurnShows DEF First!CtTurn
  <1> QED
    BY <1>3, <1>4, <1>5

LEMMA MinuteShows ==
    ASSUME CalendarInv, ClMinuteList \/ ClMinuteRange \/ ClMinuteOne
    PROVE  FirstStep
  <1> DEFINE f == clSched.min
             m == Here.min
             w == Here.wall - (Here.wall % ClMinute)
  <1>1. clState = "searching" /\ clField = "min"
    BY DEF ClMinuteList, ClMinuteRange, ClMinuteOne, AtField
  <1>2. IsField(f) /\ m \in Int /\ First!CtHere = Here
    BY <1>1, ScheduleFields, TypesHere, OneCalendar DEF First!CtHere, Here
  <1>3. Matched("sec") \/ (~In(f, m) /\ ClNextMinute)
    BY <1>2, FieldCases DEF ClMinuteList, ClMinuteRange, ClMinuteOne
  <1>4. CASE Matched("sec")
    BY <1>4, HiddenStep DEF Matched
  <1>5. CASE ~In(f, m) /\ ClNextMinute
    <2>1. PICK x \in MkTime(w) : clAt' = x + ClMinute
      BY <1>5 DEF ClNextMinute, ClMoves
    <2>2. UNCHANGED <<clObject, clState>>
      BY <1>5 DEF ClNextMinute, ClMoves
    <2>3. First!MovesTo({u + ClMinute : u \in MkTime(w)})
      BY <2>1, <2>2, MoveShows
    <2>4. /\ First!MkTime(First!CtHere.wall - (First!CtHere.wall % First!ClMinute)) = MkTime(w)
          /\ First!ClMinute = ClMinute
      BY <1>2, OneCalendar
    <2>5. First!NextMinute
      BY <2>3, <2>4 DEF First!NextMinute
    <2>6. First!NotInList(f, m) \/ First!NotInRange(f, m) \/ First!NotOne(f, m)
      BY <1>2, <1>5, NotInField
    <2>7. First!CtSkipMinuteList \/ First!CtSkipMinuteRange \/ First!CtSkipMinuteOne
      BY <1>1, <1>2, <2>5, <2>6, HourFits
         DEF First!CtSkipMinuteList, First!CtSkipMinuteRange, First!CtSkipMinuteOne
    <2> QED
      BY <1>1, <2>7, TurnShows DEF First!CtTurn
  <1> QED
    BY <1>3, <1>4, <1>5

LEMMA SecondShows ==
    ASSUME CalendarInv, ClSecondList \/ ClSecondRange \/ ClSecondOne
    PROVE  FirstStep
  <1> DEFINE f == clSched.sec
             s == Here.sec
  <1>1. clState = "searching" /\ clField = "sec"
    BY DEF ClSecondList, ClSecondRange, ClSecondOne, AtField
  <1>2. IsField(f) /\ s \in Int /\ First!CtHere = Here
    BY <1>1, ScheduleFields, TypesHere, OneCalendar DEF First!CtHere, Here
  <1>3. (In(f, s) /\ ClReturns("found")) \/ (~In(f, s) /\ ClNextSecond)
    BY <1>2, FieldCases DEF ClSecondList, ClSecondRange, ClSecondOne
  <1>4. CASE In(f, s) /\ ClReturns("found")
    <2>1. First!CtFound
      BY <1>1, <1>2, <1>4, MinuteFits, EndShows, OneCalendar DEF First!CtFound
    <2> QED
      BY <1>1, <2>1, TurnShows DEF First!CtTurn
  <1>5. CASE ~In(f, s) /\ ClNextSecond
    <2>1. PICK x \in MkTime(Here.wall) : clAt' = x + 1
      BY <1>5 DEF ClNextSecond, ClMoves
    <2>2. UNCHANGED <<clObject, clState>>
      BY <1>5 DEF ClNextSecond, ClMoves
    <2>3. First!MovesTo({u + 1 : u \in MkTime(Here.wall)})
      BY <2>1, <2>2, MoveShows
    <2>4. First!NextSecond
      BY <1>2, <2>3, OneCalendar DEF First!NextSecond
    <2>5. First!NotInList(f, s) \/ First!NotInRange(f, s) \/ First!NotOne(f, s)
      BY <1>2, <1>5, NotInField
    <2>6. First!CtSkipSecondList \/ First!CtSkipSecondRange \/ First!CtSkipSecondOne
      BY <1>1, <1>2, <2>4, <2>5, MinuteFits
         DEF First!CtSkipSecondList, First!CtSkipSecondRange, First!CtSkipSecondOne
    <2> QED
      BY <1>1, <2>6, TurnShows DEF First!CtTurn
  <1> QED
    BY <1>3, <1>4, <1>5

LEMMA StepShows == CalendarInv /\ [ClNext]_clVars => [First!CtNext]_(First!ctVars)
  <1> SUFFICES ASSUME CalendarInv, [ClNext]_clVars PROVE FirstStep
    BY DEF FirstStep
  <1>1. ASSUME NEW s \in ClSchedules, ClConstruct(s) PROVE FirstStep
    <2>1. First!CtAccepts(s)
      BY <1>1, AcceptsLess DEF ClConstruct
    <2>2. First!CtInit
      BY <1>1, <2>1 DEF ClConstruct, First!CtInit
    <2> QED
      BY <2>2 DEF FirstStep, First!CtNext
  <1>2. ASSUME NEW u \in ClStarts, ClStart(u) PROVE FirstStep
    <2>1. First!CtStart(u)
      BY <1>2 DEF ClStart, ClSearch, First!CtStart, First!SearchAfter
    <2> QED
      BY <2>1 DEF FirstStep, First!CtNext
  <1>3. CASE ClUpdate
    <2>1. First!CtUpdate
      BY <1>3 DEF ClUpdate, ClSearch, First!CtUpdate, First!SearchAfter
    <2> QED
      BY <2>1 DEF FirstStep, First!CtNext
  <1>4. CASE ClDestroy
    <2>1. First!CtFinish
      BY <1>4 DEF ClDestroy, First!CtFinish
    <2> QED
      BY <2>1 DEF FirstStep, First!CtNext
  <1>5. CASE ClStep
    <2>1. ASSUME \/ ClMonthDayList \/ ClMonthDayRange \/ ClMonthDayOne
                 \/ ClWeekDayList \/ ClWeekDayRange \/ ClWeekDayOne \/ ClDayMatches
          PROVE  FirstStep
      BY <2>1, HiddenStep
         DEF ClMonthDayList, ClMonthDayRange, ClMonthDayOne, ClWeekDayList, ClWeekDayRange, ClWeekDayOne,
             ClDayMatches, DayField, Matched
    <2> QED
      BY <1>5, <2>1, YearShows, MonthShows, NextDayShows, HourShows, MinuteShows, SecondShows DEF ClStep
  <1>6. CASE UNCHANGED clVars
    BY <1>6, HiddenStep DEF clVars, clObject
  <1>7. CASE ClGoesOn
    BY <1>6, <1>7 DEF ClGoesOn
  <1> QED
    BY <1>1, <1>2, <1>3, <1>4, <1>5, <1>6, <1>7 DEF ClNext

\* Times2 accepts no schedule that Times refused, and its search, field by field, moves through the dates that the
\* search of Times goes through and returns the same: every behaviour of the second version is one of the first.
THEOREM Times2ImplementsTimes == ClSpec => SameAsTimes
  <1> QED
    BY CalendarInitial, CalendarStep, FirstInitial, StepShows, PTL DEF ClSpec, SameAsTimes, First!CtSpec
=============================================================================
