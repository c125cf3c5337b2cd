------------------------- MODULE ConnectionsProofs -------------------------
(***************************************************************************)
(* Proofs about the ConnectionsManager, for every number of sessions,      *)
(* processors, connections and events, and every sequence of failures: its *)
(* sessions, its events, and the service that builds and ends its parts.   *)
(*                                                                         *)
(* A session is free only when nobody uses it, and its connection is in    *)
(* one place at a time.  A token of a session is its place in the pool, an *)
(* event, a processor at work on it, or a proxy.                           *)
(***************************************************************************)
EXTENDS CMSessions, CMService, FiniteSetTheorems, SequenceTheorems, WellFoundedInduction, TLAPS

\* What a processor does with a session that is its own.
Accepting == {"accepted", "drop"}
Reading == {"read", "release", "process", "proxy", "sendError"}
Freeing == {"insert", "expired"}
Holding == Accepting \cup Reading \cup Freeing

\* Where it has not, or no longer, an event in its hands.
NoEvent == {"idle", "accept", "scan", "expire", "expired"} \cup Accepting

Stages == {"close"} \cup NoEvent \cup Holding
Entry == [s : CmSessions, start : 0 .. CmLastTime, conn : 0 .. CmConns]
Place == [pc : Stages, s : CmSessions \cup {0}, start : 0 .. CmLastTime,
          conn : 0 .. CmConns, n : Nat, now : 0 .. CmLastTime]

SessionTypes ==
    /\ csFree \subseteq CmSessions
    /\ csConn \in [CmSessions -> 0 .. CmConns]
    /\ csStart \in [CmSessions -> 0 .. CmLastTime]
    /\ csLast \in [CmSessions -> 0 .. CmLastTime]
    /\ csPool \subseteq CmSessions \X (0 .. CmConns)
    /\ csNow \in 1 .. CmLastTime
    /\ csAccepted \in 0 .. CmConns

ListTypes == csQueue \in Seq(Entry) /\ csProxies \subseteq Entry

PlaceOK(a) ==
    /\ a \in Place
    /\ a.pc \in NoEvent => a.conn = 0
    /\ a.pc \notin {"idle", "accept"} => a.s \in CmSessions

ProcTypes == csAt = [p \in CmProcs |-> csAt[p]] /\ \A p \in CmProcs : PlaceOK(csAt[p])

-----------------------------------------------------------------------------
\* The tokens of a session.
InPool(s) == {c \in 0 .. CmConns : <<s, c>> \in csPool}
InQueue(s) == {i \in 1 .. Len(csQueue) : csQueue[i].s = s}
ByProc(s) == {p \in CmProcs : csAt[p].pc \in Holding /\ csAt[p].s = s}
ByProxy(s) == {e \in csProxies : e.s = s}

AtMostOne(S) == \A x, y \in S : x = y

\* Not more than one token.
OneToken(s) ==
    /\ AtMostOne(InPool(s)) /\ AtMostOne(InQueue(s))
    /\ AtMostOne(ByProc(s)) /\ AtMostOne(ByProxy(s))
    /\ InPool(s) # {} => InQueue(s) = {} /\ ByProc(s) = {} /\ ByProxy(s) = {}
    /\ InQueue(s) # {} => ByProc(s) = {} /\ ByProxy(s) = {}
    /\ ByProc(s) # {} => ByProxy(s) = {}

NoToken(s) == InPool(s) = {} /\ InQueue(s) = {} /\ ByProc(s) = {} /\ ByProxy(s) = {}

\* An event is about the connection that the session has.
Current(e) == e.conn = csConn[e.s] /\ e.start = csStart[e.s] /\ e.conn # 0

Closed(s) == csConn[s] = 0 /\ csStart[s] = 0

\* What a token says is so, and a free session has none.
SessionOK(s) ==
    /\ OneToken(s)
    /\ s \in csFree => Closed(s) /\ NoToken(s)
    /\ \A c \in InPool(s) : c = csConn[s] /\ c # 0
    /\ \A i \in InQueue(s) : Current(csQueue[i])
    /\ \A e \in ByProxy(s) : Current(e)
    /\ \A p \in ByProc(s) : /\ csAt[p].pc \in Reading => Current(csAt[p])
                            /\ csAt[p].pc \in Accepting => csConn[s] # 0
                            /\ csAt[p].pc \in Freeing => Closed(s)

SessionsOK == \A s \in CmSessions \ csSuspect : SessionOK(s)

IInv == SessionTypes /\ ListTypes /\ ProcTypes /\ AnswersToOwner /\ SessionsOK

-----------------------------------------------------------------------------
(***************************************************************************)
(* Steps of a processor.                                                   *)
(***************************************************************************)
Others(p) == \A q \in CmProcs \ {p} : csAt'[q] = csAt[q]

LEMMA Numbers ==
    /\ CmLastTime \in Nat /\ CmLastTime >= 1 /\ CmLastRequest <= CmLastTime /\ CmConns \in Nat
    /\ CmSessions \subseteq Nat /\ 0 \notin CmSessions
  BY CmAssumption DEF CmLastTime

LEMMA ProcSteps ==
    ASSUME ProcTypes, NEW p \in CmProcs, NEW a, PlaceOK(a), csAt' = [csAt EXCEPT ![p] = a]
    PROVE  ProcTypes' /\ csAt'[p] = a /\ Others(p)
  <1>1. csAt' = [q \in CmProcs |-> csAt'[q]] /\ csAt'[p] = a /\ Others(p)
    BY DEF ProcTypes, Others
  <1>2. \A q \in CmProcs : PlaceOK(csAt'[q])
    BY <1>1 DEF ProcTypes, Others
  <1>3. \A q \in CmProcs : PlaceOK(csAt[q])'
    BY <1>2 DEF PlaceOK, Place, Entry
  <1> QED
    BY <1>1, <1>3 DEF ProcTypes

LEMMA IdleOK == PlaceOK(CmIdle) /\ CmIdle.pc = "idle"
  BY Numbers DEF PlaceOK, Place, Stages, NoEvent, CmIdle

LEMMA Goes ==
    ASSUME ProcTypes, NEW p \in CmProcs, NEW x \in Stages, CmGoes(p, x),
           x \in NoEvent => csAt[p].conn = 0,
           csAt[p].pc \notin {"idle", "accept"} \/ x = "accept"
    PROVE  /\ ProcTypes' /\ Others(p)
           /\ csAt'[p].pc = x /\ csAt'[p].s = csAt[p].s
           /\ csAt'[p].start = csAt[p].start /\ csAt'[p].conn = csAt[p].conn
  <1> DEFINE a == [csAt[p] EXCEPT !.pc = x]
  <1>1. PlaceOK(csAt[p])
    BY DEF ProcTypes
  <1>2. PlaceOK(a) /\ a.pc = x /\ a.s = csAt[p].s /\ a.start = csAt[p].start /\ a.conn = csAt[p].conn
    BY <1>1 DEF PlaceOK, Place
  <1>3. csAt' = [csAt EXCEPT ![p] = a]
    BY DEF CmGoes
  <1> QED
    <2> HIDE DEF a
    <2> QED
      BY <1>2, <1>3, ProcSteps

LEMMA Ends ==
    ASSUME ProcTypes, NEW p \in CmProcs, CmEnds(p)
    PROVE  ProcTypes' /\ Others(p) /\ csAt'[p].pc \notin Holding
  BY ProcSteps, IdleOK DEF CmEnds, Holding, Accepting, Reading, Freeing

LEMMA Returns ==
    ASSUME ProcTypes, NEW p \in CmProcs, HandlerReturns(p)
    PROVE  ProcTypes' /\ Others(p) /\ csAt'[p].pc \notin Holding
  <1>1. CASE CmEnds(p)
    BY <1>1, Ends
  <1>2. CASE csAt' = [csAt EXCEPT ![p] = [CmIdle EXCEPT !.pc = "accept", !.n = csAt[p].n]]
    <2> DEFINE a == [CmIdle EXCEPT !.pc = "accept", !.n = csAt[p].n]
    <2>1. csAt[p].n \in Nat
      BY DEF ProcTypes, PlaceOK, Place
    <2>2. PlaceOK(a) /\ a.pc = "accept"
      <3>1. CmIdle \in Place /\ CmIdle.conn = 0
        BY IdleOK DEF PlaceOK, NoEvent
      <3> QED
        BY <2>1, <3>1 DEF PlaceOK, Place, Stages, NoEvent
    <2> HIDE DEF a
    <2>3. ProcTypes' /\ csAt'[p] = a /\ Others(p)
      BY <1>2, <2>2, ProcSteps DEF a
    <2> QED
      BY <2>2, <2>3 DEF Holding, Accepting, Reading, Freeing
  <1> QED
    BY <1>1, <1>2 DEF HandlerReturns

LEMMA Least ==
    ASSUME NEW S, S \subseteq Nat, S # {}
    PROVE  (CHOOSE s \in S : \A t \in S : s <= t) \in S
  <1>1. PICK s \in S : \A t \in S : ~ (<<t, s>> \in OpToRel(<, Nat))
    BY NatLessThanWellFounded, WFMin
  <1>2. \A t \in S : ~ (t < s)
    BY <1>1 DEF OpToRel
  <1>3. \A t \in S : s <= t
    BY <1>2
  <1> QED
    BY <1>3

\* The check goes to the next session, or ends.
LEMMA NextSession ==
    ASSUME ProcTypes, NEW p \in CmProcs, csAt[p].pc \in {"scan", "expire", "expired"}, ScanNext(p)
    PROVE  ProcTypes' /\ Others(p) /\ csAt'[p].pc \notin Holding
  <1> DEFINE later == {s \in CmSessions : s > SessionOf(p)}
             next == CHOOSE s \in later : \A t \in later : s <= t
             a == [csAt[p] EXCEPT !.pc = "scan", !.s = next]
  <1>1. CASE CmEnds(p)
    BY <1>1, Ends
  <1>2. CASE later # {} /\ csAt' = [csAt EXCEPT ![p].pc = "scan", ![p].s = next]
    <2>1. next \in later
      <3>1. later \subseteq Nat
        BY Numbers
      <3> HIDE DEF later
      <3> QED
        BY <1>2, <3>1, Least
    <2>2. next \in CmSessions
      BY <2>1
    <2> HIDE DEF next
    <2>3. csAt' = [csAt EXCEPT ![p] = a]
      <3>1. csAt' = [csAt EXCEPT ![p].pc = "scan", ![p].s = next]
        BY <1>2
      <3> QED
        BY <3>1 DEF ProcTypes
    <2>4. PlaceOK(csAt[p])
      BY DEF ProcTypes
    <2>5. PlaceOK(a) /\ a.pc = "scan"
      BY <2>2, <2>4 DEF PlaceOK, Place, Stages, NoEvent
    <2> HIDE DEF a
    <2>6. ProcTypes' /\ csAt'[p] = a /\ Others(p)
      BY <2>3, <2>5, ProcSteps
    <2> QED
      BY <2>5, <2>6 DEF Holding, Accepting, Reading, Freeing
  <1> QED
    BY <1>1, <1>2 DEF ScanNext

-----------------------------------------------------------------------------
(***************************************************************************)
(* What is left alone stays right.                                         *)
(***************************************************************************)
\* No processor becomes a holder of session t, and those that stay holders
\* hold what they held.
ProcsWithin(t) ==
    \A q \in ByProc(t)' :
        /\ q \in ByProc(t)
        /\ csAt'[q].conn = csAt[q].conn /\ csAt'[q].start = csAt[q].start
        /\ csAt'[q].pc \in Reading => csAt[q].pc \in Reading
        /\ csAt'[q].pc \in Accepting => csAt[q].pc \in Accepting
        /\ csAt'[q].pc \in Freeing => csAt[q].pc \in Freeing

\* The events of session t are the ones that they were, k places further on.
QueueWithin(t, k) ==
    \A i \in InQueue(t)' : i + k \in InQueue(t) /\ csQueue'[i] = csQueue[i + k]

TablesWithin(t) ==
    /\ csConn'[t] = csConn[t] /\ csStart'[t] = csStart[t]
    /\ t \in csFree' => t \in csFree
    /\ InPool(t)' \subseteq InPool(t)
    /\ ByProxy(t)' \subseteq ByProxy(t)

LEMMA Kept ==
    ASSUME NEW t, SessionOK(t), TablesWithin(t), ProcsWithin(t),
           NEW k \in Nat, QueueWithin(t, k)
    PROVE  SessionOK(t)'
  <1>1. /\ InQueue(t)' # {} => InQueue(t) # {}
        /\ AtMostOne(InQueue(t)) => AtMostOne(InQueue(t)')
    <2> DEFINE Q == InQueue(t)
               R == InQueue(t)'
    <2>1. \A i \in R : i \in Int
      BY DEF InQueue
    <2>2. \A i \in R : i + k \in Q
      BY DEF QueueWithin
    <2> HIDE DEF Q, R
    <2>3. R # {} => Q # {}
      BY <2>2
    <2>4. ASSUME AtMostOne(Q) PROVE AtMostOne(R)
      <3> SUFFICES ASSUME NEW i \in R, NEW j \in R PROVE i = j
        BY DEF AtMostOne
      <3>1. i + k = j + k
        BY <2>2, <2>4 DEF AtMostOne
      <3>2. i \in Int /\ j \in Int
        BY <2>1
      <3> QED
        BY <3>1, <3>2
    <2> QED
      BY <2>3, <2>4 DEF Q, R
  <1>2. /\ ByProc(t)' \subseteq ByProc(t)
        /\ \A q \in ByProc(t)' : csAt'[q].s = t /\ csAt[q].s = t
    BY DEF ProcsWithin, ByProc
  <1>3. OneToken(t)'
    BY <1>1, <1>2 DEF SessionOK, OneToken, TablesWithin, AtMostOne
  <1>4. (t \in csFree => Closed(t) /\ NoToken(t))'
    BY <1>1, <1>2 DEF SessionOK, TablesWithin, NoToken, Closed
  <1>5. (\A c \in InPool(t) : c = csConn[t] /\ c # 0)'
    BY DEF SessionOK, TablesWithin
  <1>6. (\A i \in InQueue(t) : Current(csQueue[i]))'
    BY DEF SessionOK, TablesWithin, QueueWithin, Current, InQueue
  <1>7. (\A e \in ByProxy(t) : Current(e))'
    BY DEF SessionOK, TablesWithin, Current, ByProxy
  <1>8. (\A p \in ByProc(t) : /\ csAt[p].pc \in Reading => Current(csAt[p])
                              /\ csAt[p].pc \in Accepting => csConn[t] # 0
                              /\ csAt[p].pc \in Freeing => Closed(t))'
    BY <1>2 DEF SessionOK, TablesWithin, ProcsWithin, Current, Closed
  <1> QED
    BY <1>3, <1>4, <1>5, <1>6, <1>7, <1>8 DEF SessionOK

\* A processor that is at work on session s, or on none, afterwards.
LEMMA ProcsElsewhere ==
    ASSUME NEW p \in CmProcs, Others(p), NEW t, csAt'[p].pc \notin Holding \/ csAt'[p].s # t
    PROVE  ProcsWithin(t) /\ ByProc(t)' = ByProc(t) \ {p}
  BY DEF ProcsWithin, ByProc, Others

\* A processor goes on with what it has.
LEMMA ProcsGoOn ==
    ASSUME NEW p \in CmProcs, Others(p), NEW t,
           csAt'[p].s = csAt[p].s /\ csAt'[p].conn = csAt[p].conn /\ csAt'[p].start = csAt[p].start,
           \/ csAt[p].pc \in Reading /\ csAt'[p].pc \in Reading
           \/ csAt[p].pc \in Accepting /\ csAt'[p].pc \in Accepting
    PROVE  ProcsWithin(t) /\ ByProc(t)' = ByProc(t)
  BY DEF ProcsWithin, ByProc, Others, Holding, Reading, Accepting, Freeing

LEMMA ProcsSame ==
    ASSUME NEW t, UNCHANGED csAt
    PROVE  ProcsWithin(t) /\ ByProc(t)' = ByProc(t)
  BY DEF ProcsWithin, ByProc

LEMMA QueueSame ==
    ASSUME NEW t, UNCHANGED csQueue
    PROVE  QueueWithin(t, 0) /\ InQueue(t)' = InQueue(t)
  BY DEF QueueWithin, InQueue

\* With no token left, or one of a kind, a session is right when the token is.
LEMMA NoneLeft ==
    ASSUME NEW s, NoToken(s)', (s \in csFree => Closed(s))'
    PROVE  SessionOK(s)'
  BY DEF SessionOK, OneToken, AtMostOne, NoToken

LEMMA OnlyProc ==
    ASSUME NEW s, s \notin csFree', InPool(s)' = {}, InQueue(s)' = {}, ByProxy(s)' = {},
           NEW p, ByProc(s)' \subseteq {p},
           (/\ csAt[p].pc \in Reading => Current(csAt[p])
            /\ csAt[p].pc \in Accepting => csConn[s] # 0
            /\ csAt[p].pc \in Freeing => Closed(s))'
    PROVE  SessionOK(s)'
  <1>1. OneToken(s)'
    BY DEF OneToken, AtMostOne
  <1>2. (\A q \in ByProc(s) : /\ csAt[q].pc \in Reading => Current(csAt[q])
                              /\ csAt[q].pc \in Accepting => csConn[s] # 0
                              /\ csAt[q].pc \in Freeing => Closed(s))'
    BY DEF Current
  <1> QED
    BY <1>1, <1>2 DEF SessionOK

LEMMA OnlyPool ==
    ASSUME NEW s, s \notin csFree', InQueue(s)' = {}, ByProc(s)' = {}, ByProxy(s)' = {},
           InPool(s)' \subseteq {csConn'[s]}, csConn'[s] # 0
    PROVE  SessionOK(s)'
  BY DEF SessionOK, OneToken, AtMostOne

LEMMA OnlyQueue ==
    ASSUME NEW s, s \notin csFree', InPool(s)' = {}, ByProc(s)' = {}, ByProxy(s)' = {},
           NEW i, InQueue(s)' \subseteq {i}, Current(csQueue[i])'
    PROVE  SessionOK(s)'
  <1>1. OneToken(s)'
    BY DEF OneToken, AtMostOne
  <1>2. (\A j \in InQueue(s) : Current(csQueue[j]))'
    BY DEF Current
  <1> QED
    BY <1>1, <1>2 DEF SessionOK

LEMMA OnlyProxy ==
    ASSUME NEW s, s \notin csFree', InPool(s)' = {}, InQueue(s)' = {}, ByProc(s)' = {},
           NEW e, ByProxy(s)' \subseteq {e}, Current(e)'
    PROVE  SessionOK(s)'
  BY DEF SessionOK, OneToken, AtMostOne

\* A token is the only one, and its session is not free.
LEMMA TheToken ==
    ASSUME NEW s, SessionOK(s)
    PROVE  /\ \A p \in ByProc(s) : /\ InPool(s) = {} /\ InQueue(s) = {} /\ ByProxy(s) = {}
                                    /\ ByProc(s) = {p} /\ s \notin csFree
           /\ \A c \in InPool(s) : /\ ByProc(s) = {} /\ InQueue(s) = {} /\ ByProxy(s) = {}
                                    /\ InPool(s) = {c} /\ s \notin csFree
                                    /\ c = csConn[s] /\ c # 0
           /\ \A i \in InQueue(s) : /\ InPool(s) = {} /\ ByProc(s) = {} /\ ByProxy(s) = {}
                                     /\ InQueue(s) = {i} /\ s \notin csFree
           /\ \A e \in ByProxy(s) : /\ InPool(s) = {} /\ InQueue(s) = {} /\ ByProc(s) = {}
                                     /\ ByProxy(s) = {e} /\ s \notin csFree
  BY DEF SessionOK, OneToken, AtMostOne, NoToken

\* The socket of session s in the pool.
LEMMA PoolOf ==
    ASSUME SessionTypes, NEW s \in CmSessions
    PROVE  /\ csConn[s] \in 0 .. CmConns
           /\ Fd(s) \in csPool <=> csConn[s] \in InPool(s)
  BY DEF SessionTypes, InPool, Fd

\* addSocket after the work of a processor or of a proxy thread.
LEMMA BackToPool ==
    ASSUME SessionTypes, NEW s \in CmSessions, SessionOK(s), csConn[s] # 0,
           UNCHANGED <<csConn, csStart, csFree, csQueue>>,
           csPool' = csPool \cup {Fd(s)},
           \/ ByProc(s) # {} /\ ByProc(s)' = {} /\ ByProxy(s)' \subseteq ByProxy(s)
           \/ ByProxy(s) # {} /\ ByProxy(s)' = {} /\ ByProc(s)' \subseteq ByProc(s)
    PROVE  SessionOK(s)'
  <1>1. /\ ByProc(s)' = {} /\ ByProxy(s)' = {} /\ InPool(s) = {} /\ InQueue(s) = {}
        /\ s \notin csFree
    BY TheToken
  <1>2. InPool(s)' \subseteq {csConn'[s]}
    BY <1>1 DEF InPool, Fd
  <1>3. InQueue(s)' = {}
    BY <1>1, QueueSame
  <1> QED
    BY <1>1, <1>2, <1>3, OnlyPool

\* A session is released by a processor, which goes on to make it free.
LEMMA SessionReleased ==
    ASSUME SessionTypes, NEW s \in CmSessions, SessionOK(s), NEW p \in CmProcs, Others(p),
           NEW deletes \in BOOLEAN, ReleaseOk(s, deletes), csAt'[p].pc \in Freeing,
           deletes \/ p \in ByProc(s),
           UNCHANGED <<csFree, csQueue, csProxies>>
    PROVE  SessionOK(s)'
  <1>1. /\ InQueue(s) = {} /\ ByProxy(s) = {} /\ ByProc(s) \subseteq {p} /\ s \notin csFree
        /\ InPool(s) \subseteq {csConn[s]}
        /\ InPool(s) # {} => deletes
    BY TheToken, PoolOf DEF ReleaseOk
  <1>2. InPool(s)' = {}
    <2>1. CASE deletes
      <3>1. csPool' = csPool \ {Fd(s)}
        BY <2>1 DEF ReleaseOk
      <3>2. \A c \in InPool(s)' : c \in InPool(s) /\ <<s, c>> # <<s, csConn[s]>>
        BY <3>1 DEF InPool, Fd
      <3> QED
        BY <1>1, <3>2
    <2>2. CASE ~deletes
      <3>1. InPool(s) = {}
        BY <1>1, <2>2
      <3>2. csPool' = csPool
        BY <2>2, Zenon DEF ReleaseOk
      <3> QED
        BY <3>1, <3>2 DEF InPool
    <2> QED
      BY <2>1, <2>2
  <1>3. InQueue(s)' = {} /\ ByProxy(s)' = {}
    BY <1>1, QueueSame DEF ByProxy
  <1>4. ByProc(s)' \subseteq {p}
    BY <1>1 DEF ByProc, Others
  <1>5. Closed(s)'
    BY DEF Closed, ReleaseOk, CloseSocket, Opened, SessionTypes
  <1> QED
    BY <1>1, <1>2, <1>3, <1>4, <1>5, OnlyProc DEF Freeing, Reading, Accepting

\* A release that succeeds leaves the other sessions alone.
LEMMA ReleasedOthers ==
    ASSUME SessionTypes, NEW s \in CmSessions, NEW t \in CmSessions, t # s,
           NEW deletes, ReleaseOk(s, deletes), UNCHANGED <<csFree, csProxies>>
    PROVE  TablesWithin(t)
  BY DEF TablesWithin, ReleaseOk, CloseSocket, Opened, SessionTypes, InPool, ByProxy

LEMMA TablesSame ==
    ASSUME NEW t, UNCHANGED <<csConn, csStart, csFree>>,
           csPool' \subseteq csPool, csProxies' \subseteq csProxies
    PROVE  TablesWithin(t)
  BY DEF TablesWithin, InPool, ByProxy

-----------------------------------------------------------------------------
(***************************************************************************)
(* Steps that move no token: they drop one, or go on with it.              *)
(***************************************************************************)
LEMMA Unmoved ==
    ASSUME IInv, UNCHANGED <<csFree, csConn, csStart, csLast, csPool, csNow, csAccepted>>
    PROVE  SessionTypes'
  BY DEF IInv, SessionTypes

LEMMA Quiet ==
    ASSUME IInv, SessionTypes', ListTypes', ProcTypes', AnswersToOwner',
           csSuspect \subseteq csSuspect', UNCHANGED csQueue,
           \A t \in CmSessions : TablesWithin(t) /\ ProcsWithin(t)
    PROVE  IInv'
  <1> SUFFICES ASSUME NEW t \in CmSessions, t \notin csSuspect' PROVE SessionOK(t)'
    BY DEF IInv, SessionsOK
  <1>1. SessionOK(t) /\ TablesWithin(t) /\ ProcsWithin(t)
    BY DEF IInv, SessionsOK
  <1>2. QueueWithin(t, 0)
    BY QueueSame
  <1> QED
    BY <1>1, <1>2, Kept

\* Only the place of a processor changes.
LEMMA QuietPlace ==
    ASSUME IInv, ProcTypes', AnswersToOwner', \A t \in CmSessions : ProcsWithin(t),
           csSuspect \subseteq csSuspect',
           UNCHANGED <<csFree, csSession, csPool, csQueue, csProxies, csNow, csAccepted>>
    PROVE  IInv'
  <1>1. SessionTypes'
    BY Unmoved DEF csSession
  <1>2. ListTypes'
    BY DEF IInv, ListTypes
  <1>3. \A t \in CmSessions : TablesWithin(t)
    BY TablesSame DEF csSession
  <1> QED
    BY <1>1, <1>2, <1>3, Quiet

\* An event is used on a connection that began when it says.
LEMMA Crossing ==
    ASSUME AnswersToOwner, NEW e, SameStart(e), Crosses(e)
    PROVE  AnswersToOwner'
  BY DEF AnswersToOwner, SameStart, Crosses

LEMMA NotCrossing ==
    ASSUME AnswersToOwner, UNCHANGED csCrossed
    PROVE  AnswersToOwner'
  BY DEF AnswersToOwner

\* The stages are different from each other.
LEMMA StageKinds ==
    /\ Reading \cap (Accepting \cup Freeing \cup NoEvent) = {}
    /\ Accepting \cap Freeing = {} /\ Accepting \subseteq NoEvent
    /\ {"idle", "accept", "scan", "expire", "close"} \cap Holding = {}
    /\ Holding = Accepting \cup Reading \cup Freeing /\ Holding \subseteq Stages
    /\ {"idle", "accept", "scan", "expire", "expired", "close"} \subseteq Stages
    /\ {"idle", "accept", "scan", "expire", "expired"} \subseteq NoEvent /\ "insert" \notin NoEvent
    /\ "close" \notin NoEvent
  BY DEF Reading, Accepting, Freeing, NoEvent, Holding, Stages

LEMMA PlaceFacts ==
    ASSUME IInv, NEW p \in CmProcs
    PROVE  /\ csAt[p].pc \in NoEvent => csAt[p].conn = 0
           /\ csAt[p].pc \notin {"idle", "accept"} => csAt[p].s \in CmSessions
           /\ ProcTypes /\ ListTypes /\ SessionTypes /\ AnswersToOwner
           /\ csAt[p] \in Place
  BY DEF IInv, ProcTypes, PlaceOK

\* A processor that drops what it has, or had nothing.
LEMMA StepsThatEnd ==
    ASSUME IInv, NEW p \in CmProcs,
           \/ AcceptBegins(p) \/ AcceptNone(p) \/ ReadOld(p) \/ ProcessNothing(p) \/ ScanBegins(p)
           \/ ScanSession(p)
    PROVE  IInv'
  <1>0. UNCHANGED <<csFree, csSession, csPool, csQueue, csProxies, csNow, csAccepted,
                    csSuspect, csCrossed>>
    BY DEF AcceptBegins, AcceptNone, ReadOld, ProcessNothing, ScanBegins, ScanSession, csBounds,
           csHistory
  <1>1. AnswersToOwner'
    BY <1>0, NotCrossing DEF IInv
  <1>2. ProcTypes' /\ Others(p) /\ csAt'[p].pc \notin Holding
    <2>1. CASE AcceptBegins(p)
      <3>1. CmGoes(p, "accept") /\ csAt[p].conn = 0
        BY <2>1, PlaceFacts, StageKinds DEF AcceptBegins, CmAt
      <3> QED
        BY <3>1, Goes, PlaceFacts, StageKinds
    <2>2. CASE AcceptNone(p) \/ ReadOld(p)
      BY <2>2, Ends, PlaceFacts DEF AcceptNone, ReadOld
    <2>3. CASE ProcessNothing(p)
      BY <2>3, Returns, PlaceFacts DEF ProcessNothing
    <2>4. CASE ScanBegins(p)
      <3> DEFINE a == [CmIdle EXCEPT !.pc = "scan", !.s = CmFirst, !.now = csNow]
      <3>1. CmFirst \in CmSessions
        <4>1. CmSessions # {} /\ CmSessions \subseteq Nat
          BY <2>4, PlaceFacts, Numbers DEF ScanBegins, SessionTypes
        <4> QED
          BY <4>1, Least DEF CmFirst
      <3>2. CmIdle \in Place /\ CmIdle.conn = 0 /\ csNow \in 0 .. CmLastTime
        BY IdleOK, PlaceFacts, Numbers DEF PlaceOK, NoEvent, SessionTypes
      <3>3. PlaceOK(a) /\ a.pc = "scan"
        BY <3>1, <3>2, StageKinds DEF PlaceOK, Place
      <3>4. csAt' = [csAt EXCEPT ![p] = a]
        BY <2>4 DEF ScanBegins
      <3> HIDE DEF a
      <3> QED
        BY <3>3, <3>4, ProcSteps, PlaceFacts, StageKinds
    <2>5. CASE ScanSession(p)
      <3>1. csAt[p].pc = "scan" /\ csAt[p].conn = 0
        BY <2>5, PlaceFacts, StageKinds DEF ScanSession, CmAt
      <3>2. CASE CmGoes(p, "expire")
        BY <3>1, <3>2, Goes, PlaceFacts, StageKinds
      <3>3. CASE ScanNext(p)
        BY <3>1, <3>3, NextSession, PlaceFacts
      <3> QED
        BY <2>5, <3>2, <3>3 DEF ScanSession
    <2> QED
      BY <2>1, <2>2, <2>3, <2>4, <2>5
  <1>3. \A t \in CmSessions : ProcsWithin(t)
    BY <1>2, ProcsElsewhere
  <1> QED
    BY <1>0, <1>1, <1>2, <1>3, QuietPlace

\* A processor goes to the next stage with its session.
LEMMA GoesOn ==
    ASSUME IInv, NEW p \in CmProcs, NEW x \in Stages, CmGoes(p, x),
           \/ csAt[p].pc \in Reading /\ x \in Reading
           \/ csAt[p].pc \in Accepting /\ x \in Accepting
           \/ csAt[p].pc \in Reading /\ x = "close"
    PROVE  ProcTypes' /\ \A t \in CmSessions : ProcsWithin(t)
  <1>1. csAt[p].pc \notin {"idle", "accept"} /\ x \in NoEvent => csAt[p].conn = 0
    BY PlaceFacts, StageKinds
  <1>2. csAt[p].pc \notin {"idle", "accept"}
    BY StageKinds
  <1>3. /\ ProcTypes' /\ Others(p)
        /\ csAt'[p].pc = x /\ csAt'[p].s = csAt[p].s
        /\ csAt'[p].start = csAt[p].start /\ csAt'[p].conn = csAt[p].conn
    BY <1>1, <1>2, Goes, PlaceFacts
  <1>4. CASE x = "close"
    BY <1>3, <1>4, ProcsElsewhere, StageKinds
  <1>5. CASE x # "close"
    BY <1>3, <1>5, ProcsGoOn
  <1> QED
    BY <1>3, <1>4, <1>5

LEMMA StepsThatGoOn ==
    ASSUME IInv, NEW p \in CmProcs,
           NotToBeProxied(p) \/ ProxyFails(p) \/ AcceptNoEvent(p) \/ ReadEnds(p)
    PROVE  IInv'
  <1>0. /\ UNCHANGED <<csFree, csSession, csPool, csQueue, csProxies, csNow, csAccepted>>
        /\ csSuspect' = csSuspect
    BY DEF NotToBeProxied, ProxyFails, AcceptNoEvent, ReadEnds, csBounds, csHistory
  <1>1. AnswersToOwner'
    <2>1. CASE ReadEnds(p)
      BY <2>1, Crossing, PlaceFacts DEF ReadEnds
    <2>2. CASE NotToBeProxied(p) \/ ProxyFails(p) \/ AcceptNoEvent(p)
      BY <2>2, NotCrossing, PlaceFacts DEF NotToBeProxied, ProxyFails, AcceptNoEvent, csHistory
    <2> QED
      BY <2>1, <2>2
  <1>2. PICK x \in Stages :
            /\ CmGoes(p, x)
            /\ \/ csAt[p].pc \in Reading /\ x \in Reading
               \/ csAt[p].pc \in Accepting /\ x \in Accepting
    <2>1. CASE NotToBeProxied(p)
      BY <2>1 DEF NotToBeProxied, CmAt, Stages, Holding, Reading
    <2>2. CASE ProxyFails(p)
      BY <2>2 DEF ProxyFails, CmAt, Stages, Holding, Reading
    <2>3. CASE AcceptNoEvent(p)
      BY <2>3 DEF AcceptNoEvent, CmAt, Stages, Holding, Accepting
    <2>4. CASE ReadEnds(p)
      BY <2>4 DEF ReadEnds, CmAt, Stages, Holding, Reading
    <2> QED
      BY <2>1, <2>2, <2>3, <2>4
  <1>3. ProcTypes' /\ \A t \in CmSessions : ProcsWithin(t)
    BY <1>2, GoesOn
  <1> QED
    BY <1>0, <1>1, <1>3, QuietPlace

\* The time of the last read changes as well.
LEMMA ReadRequestStep ==
    ASSUME IInv, NEW p \in CmProcs, ReadRequest(p)
    PROVE  IInv'
  <1> DEFINE s == SessionOf(p)
  <1>1. /\ csAt[p].pc = "read" /\ SameStart(csAt[p]) /\ Crosses(csAt[p])
        /\ csLast' = [csLast EXCEPT ![s] = csNow]
        /\ CmGoes(p, IF CmProxied THEN "proxy" ELSE "process")
        /\ UNCHANGED <<csFree, csConn, csStart, csPool, csQueue, csProxies, csNow, csAccepted,
                       csSuspect>>
    BY DEF ReadRequest, CmAt
  <1>2. AnswersToOwner'
    BY <1>1, Crossing, PlaceFacts
  <1>3. csLast' \in [CmSessions -> 0 .. CmLastTime]
    <2>1. csNow \in 0 .. CmLastTime /\ csLast \in [CmSessions -> 0 .. CmLastTime]
      BY PlaceFacts, Numbers DEF SessionTypes
    <2> QED
      BY <1>1, <2>1
  <1>4. SessionTypes' /\ ListTypes'
    BY <1>1, <1>3, PlaceFacts DEF SessionTypes, ListTypes
  <1>5. PICK x \in {"proxy", "process"} : CmGoes(p, x)
    BY <1>1
  <1>6. ProcTypes' /\ \A t \in CmSessions : ProcsWithin(t)
    <2>1. x \in Stages /\ x \in Reading /\ csAt[p].pc \in Reading
      BY <1>1 DEF Stages, Holding, Reading
    <2> QED
      BY <1>5, <2>1, GoesOn
  <1>7. \A t \in CmSessions : TablesWithin(t)
    BY <1>1, TablesSame
  <1> QED
    BY <1>1, <1>2, <1>4, <1>6, <1>7, Quiet

-----------------------------------------------------------------------------
(***************************************************************************)
(* Steps that move a token or make one.                                    *)
(***************************************************************************)
\* The step is about session s: every other one is left alone.
LEMMA About ==
    ASSUME IInv, SessionTypes', ListTypes', ProcTypes', AnswersToOwner',
           csSuspect \subseteq csSuspect', NEW s,
           \A t \in CmSessions \ {s} :
               TablesWithin(t) /\ ProcsWithin(t) /\ \E k \in Nat : QueueWithin(t, k),
           s \in CmSessions /\ s \notin csSuspect' => SessionOK(s)'
    PROVE  IInv'
  <1> SUFFICES ASSUME NEW t \in CmSessions, t \notin csSuspect', t # s PROVE SessionOK(t)'
    BY DEF IInv, SessionsOK
  <1>1. SessionOK(t) /\ TablesWithin(t) /\ ProcsWithin(t)
    BY DEF IInv, SessionsOK
  <1>2. PICK k \in Nat : QueueWithin(t, k)
    OBVIOUS
  <1> QED
    BY <1>1, <1>2, Kept

\* The processor gets the event for the connection that it has accepted.
LEMMA AcceptHandlesStep ==
    ASSUME IInv, NEW p \in CmProcs, AcceptHandles(p)
    PROVE  IInv'
  <1> PICK s : s = SessionOf(p)
    OBVIOUS
  <1> DEFINE a == [csAt[p] EXCEPT !.pc = "read", !.start = csStart[s], !.conn = csConn[s]]
  <1>1. /\ csAt[p].pc = "accepted"
        /\ UNCHANGED <<csFree, csSession, csPool, csQueue, csProxies, csNow, csAccepted,
                       csSuspect, csCrossed>>
    BY DEF AcceptHandles, CmAt, csBounds, csHistory
  <1>2. csAt[p] \in Place /\ s \in CmSessions
    BY <1>1, PlaceFacts DEF SessionOf
  <1>3. csStart[s] \in 0 .. CmLastTime /\ csConn[s] \in 0 .. CmConns
    BY <1>2, PlaceFacts DEF SessionTypes
  <1>4. csAt' = [csAt EXCEPT ![p] = a]
    <2>1. csAt' = [csAt EXCEPT ![p].pc = "read", ![p].start = csStart[s], ![p].conn = csConn[s]]
      BY DEF AcceptHandles, Event
    <2> QED
      BY <2>1, PlaceFacts DEF ProcTypes
  <1>5. PlaceOK(a) /\ a.pc = "read" /\ a.s = csAt[p].s /\ a.start = csStart[s] /\ a.conn = csConn[s]
    <2>1. "read" \in Stages /\ "read" \notin NoEvent
      BY StageKinds DEF Reading
    <2>2. csAt[p].s \in CmSessions
      BY <1>2 DEF SessionOf
    <2>3. a \in Place /\ a.pc = "read" /\ a.s = csAt[p].s /\ a.start = csStart[s] /\ a.conn = csConn[s]
      BY <1>2, <1>3, <2>1 DEF Place
    <2> QED
      BY <2>1, <2>2, <2>3 DEF PlaceOK
  <1> HIDE DEF a
  <1>6. ProcTypes' /\ csAt'[p] = a /\ Others(p)
    BY <1>4, <1>5, ProcSteps, PlaceFacts
  <1>7. SessionTypes' /\ ListTypes' /\ AnswersToOwner'
    BY <1>1, Unmoved, NotCrossing, PlaceFacts DEF csSession, ListTypes
  <1>8. a.s = s
    BY <1>5 DEF SessionOf
  <1>9. \A t \in CmSessions \ {s} :
            TablesWithin(t) /\ ProcsWithin(t) /\ \E k \in Nat : QueueWithin(t, k)
    BY <1>1, <1>6, <1>8, TablesSame, ProcsElsewhere, QueueSame DEF csSession
  <1>10. ASSUME s \notin csSuspect' PROVE SessionOK(s)'
    <2>1. SessionOK(s) /\ p \in ByProc(s)
      BY <1>1, <1>2, <1>5, <1>8, <1>10, StageKinds DEF IInv, SessionsOK, ByProc, Accepting
    <2>2. /\ InPool(s) = {} /\ InQueue(s) = {} /\ ByProxy(s) = {} /\ ByProc(s) = {p}
          /\ s \notin csFree
      BY <2>1, TheToken
    <2>3. /\ InPool(s)' = {} /\ InQueue(s)' = {} /\ ByProxy(s)' = {} /\ ByProc(s)' \subseteq {p}
          /\ s \notin csFree'
      <3>1. InPool(s)' = {} /\ InQueue(s)' = {} /\ ByProxy(s)' = {} /\ s \notin csFree'
        BY <1>1, <2>2, QueueSame DEF InPool, ByProxy
      <3>2. ByProc(s)' \subseteq {p}
        BY <1>6, <2>2 DEF ByProc, Others
      <3> QED
        BY <3>1, <3>2
    <2>4. csConn[s] # 0
      BY <1>1, <2>1 DEF SessionOK, Accepting
    <2>5. Current(csAt[p])' /\ csAt'[p].pc = "read"
      <3>1. csConn' = csConn /\ csStart' = csStart
        BY <1>1 DEF csSession
      <3> QED
        BY <1>5, <1>6, <1>8, <2>4, <3>1 DEF Current
    <2>6. (/\ csAt[p].pc \in Reading => Current(csAt[p])
           /\ csAt[p].pc \in Accepting => csConn[s] # 0
           /\ csAt[p].pc \in Freeing => Closed(s))'
      BY <2>5 DEF Accepting, Freeing
    <2> QED
      BY <2>3, <2>6, OnlyProc
  <1> QED
    BY <1>1, <1>6, <1>7, <1>9, <1>10, About

\* The times and the connection of a session are set.
LEMMA OpenedTypes ==
    ASSUME SessionTypes, NEW s \in CmSessions, NEW c \in 0 .. CmConns, NEW n \in 0 .. CmLastTime,
           Opened(s, c, n)
    PROVE  /\ csConn' \in [CmSessions -> 0 .. CmConns]
           /\ csStart' \in [CmSessions -> 0 .. CmLastTime]
           /\ csLast' \in [CmSessions -> 0 .. CmLastTime]
           /\ csConn'[s] = c /\ csStart'[s] = n
           /\ \A t \in CmSessions \ {s} : csConn'[t] = csConn[t] /\ csStart'[t] = csStart[t]
  <1>1. /\ csConn \in [CmSessions -> 0 .. CmConns]
        /\ csStart \in [CmSessions -> 0 .. CmLastTime]
        /\ csLast \in [CmSessions -> 0 .. CmLastTime]
    BY DEF SessionTypes
  <1> QED
    BY <1>1 DEF Opened

\* accept has succeeded, an option of the socket has not: the session is free
\* as before.
LEMMA AcceptLostStep ==
    ASSUME IInv, NEW p \in CmProcs, NEW s \in CmSessions, AcceptLost(p, s)
    PROVE  IInv'
  <1>1. /\ s \in csFree /\ csAccepted' = csAccepted + 1 /\ csAccepted < CmConns
        /\ Opened(s, 0, 0) /\ CmEnds(p)
        /\ UNCHANGED <<csFree, csPool, csQueue, csProxies, csNow>>
        /\ csSuspect' = csSuspect /\ csCrossed' = csCrossed
    BY DEF AcceptLost, CanAccept, CloseSocket, csHistory
  <1>2. 0 \in 0 .. CmConns /\ 0 \in 0 .. CmLastTime
    BY Numbers
  <1>3. SessionTypes'
    BY <1>1, <1>2, OpenedTypes, PlaceFacts, Numbers DEF SessionTypes
  <1>4. ListTypes' /\ AnswersToOwner'
    BY <1>1, NotCrossing, PlaceFacts DEF ListTypes
  <1>5. ProcTypes' /\ Others(p) /\ csAt'[p].pc \notin Holding
    BY <1>1, Ends, PlaceFacts
  <1>6. \A t \in CmSessions : ProcsWithin(t) /\ QueueWithin(t, 0)
    BY <1>1, <1>5, ProcsElsewhere, QueueSame
  <1>7. \A t \in CmSessions \ {s} : TablesWithin(t)
    <2>1. \A t \in CmSessions \ {s} : csConn'[t] = csConn[t] /\ csStart'[t] = csStart[t]
      BY <1>1, <1>2, OpenedTypes, PlaceFacts
    <2> QED
      BY <1>1, <2>1 DEF TablesWithin, InPool, ByProxy
  <1>8. ASSUME s \notin csSuspect PROVE TablesWithin(s)
    <2>1. csConn[s] = 0 /\ csStart[s] = 0
      BY <1>1, <1>8 DEF IInv, SessionsOK, SessionOK, Closed
    <2>2. csConn'[s] = 0 /\ csStart'[s] = 0
      BY <1>1, <1>2, OpenedTypes, PlaceFacts
    <2> QED
      BY <1>1, <2>1, <2>2 DEF TablesWithin, InPool, ByProxy
  <1>9. ASSUME s \notin csSuspect' PROVE SessionOK(s)'
    BY <1>1, <1>6, <1>8, <1>9, Kept DEF IInv, SessionsOK
  <1> QED
    BY <1>1, <1>3, <1>4, <1>5, <1>6, <1>7, <1>9, About

\* A free session gets a connection, and a processor has it.
LEMMA AcceptStep ==
    ASSUME IInv, NEW p \in CmProcs, NEW s \in CmSessions, acceptConnection(p, s)
    PROVE  IInv'
  <1> DEFINE c == csAccepted + 1
             a == [csAt[p] EXCEPT !.pc = "accepted", !.s = s, !.n = @ + 1]
  <1>1. /\ csAt[p].pc = "accept" /\ s \in csFree
        /\ csAccepted' = c /\ csAccepted < CmConns /\ csNow <= CmLastRequest
        /\ Opened(s, c, csNow)
        /\ csFree' = csFree \ {s}
        /\ UNCHANGED <<csPool, csQueue, csProxies, csNow>>
        /\ csSuspect' = csSuspect /\ csCrossed' = csCrossed
    BY DEF acceptConnection, CanAccept, CmAt, csHistory
  <1>2. c \in 0 .. CmConns /\ c # 0 /\ csNow \in 0 .. CmLastTime
    BY <1>1, PlaceFacts, Numbers DEF SessionTypes
  <1>3. csAt[p] \in Place /\ csAt[p].conn = 0
    BY <1>1, PlaceFacts, StageKinds
  <1>4. PlaceOK(a) /\ a.pc = "accepted" /\ a.s = s
    <2>1. "accepted" \in Stages
      BY DEF Stages, Holding, Accepting
    <2>2. csAt[p].n + 1 \in Nat
      BY <1>3 DEF Place
    <2>3. a = [csAt[p] EXCEPT !.pc = "accepted", !.s = s, !.n = csAt[p].n + 1]
      OBVIOUS
    <2>4. a \in Place /\ a.pc = "accepted" /\ a.s = s /\ a.conn = 0
      BY <1>3, <2>1, <2>2, <2>3 DEF Place
    <2> QED
      BY <2>4 DEF PlaceOK
  <1>5. csAt' = [csAt EXCEPT ![p] = a]
    <2>1. csAt' = [csAt EXCEPT ![p].pc = "accepted", ![p].s = s, ![p].n = @ + 1]
      BY DEF acceptConnection
    <2> QED
      BY <2>1, PlaceFacts DEF ProcTypes
  <1> HIDE DEF a, c
  <1>6. ProcTypes' /\ csAt'[p] = a /\ Others(p)
    BY <1>4, <1>5, ProcSteps, PlaceFacts
  <1>7. /\ csConn'[s] = c
        /\ \A t \in CmSessions \ {s} : csConn'[t] = csConn[t] /\ csStart'[t] = csStart[t]
        /\ csConn' \in [CmSessions -> 0 .. CmConns]
        /\ csStart' \in [CmSessions -> 0 .. CmLastTime]
        /\ csLast' \in [CmSessions -> 0 .. CmLastTime]
    BY <1>1, <1>2, OpenedTypes, PlaceFacts
  <1>8. SessionTypes' /\ ListTypes' /\ AnswersToOwner'
    BY <1>1, <1>2, <1>7, NotCrossing, PlaceFacts DEF SessionTypes, ListTypes
  <1>9. \A t \in CmSessions \ {s} :
            TablesWithin(t) /\ ProcsWithin(t) /\ \E k \in Nat : QueueWithin(t, k)
    <2> SUFFICES ASSUME NEW t \in CmSessions \ {s}
                 PROVE  TablesWithin(t) /\ ProcsWithin(t) /\ QueueWithin(t, 0)
      OBVIOUS
    <2>1. TablesWithin(t)
      BY <1>1, <1>7 DEF TablesWithin, InPool, ByProxy
    <2> QED
      BY <1>1, <1>4, <1>6, <2>1, ProcsElsewhere, QueueSame
  <1>10. ASSUME s \notin csSuspect' PROVE SessionOK(s)'
    <2>1. NoToken(s)
      BY <1>1, <1>10 DEF IInv, SessionsOK, SessionOK
    <2>2. InPool(s)' = {} /\ InQueue(s)' = {} /\ ByProxy(s)' = {} /\ s \notin csFree'
      BY <1>1, <2>1, QueueSame DEF NoToken, InPool, ByProxy
    <2>3. ByProc(s)' \subseteq {p}
      BY <1>6, <2>1 DEF ByProc, Others, NoToken
    <2>4. (/\ csAt[p].pc \in Reading => Current(csAt[p])
           /\ csAt[p].pc \in Accepting => csConn[s] # 0
           /\ csAt[p].pc \in Freeing => Closed(s))'
      BY <1>2, <1>4, <1>6, <1>7 DEF Reading, Freeing
    <2> QED
      BY <2>2, <2>3, <2>4, OnlyProc
  <1> QED
    BY <1>1, <1>6, <1>8, <1>9, <1>10, About

\* A release, whoever does it: what becomes of the tables.
LEMMA ReleaseTypes ==
    ASSUME IInv, NEW s \in CmSessions, NEW deletes, UNCHANGED <<csFree, csNow, csAccepted>>,
           ReleaseOk(s, deletes) \/ ReleaseFails(s, deletes) \/ DeleteSocketFails(s)
    PROVE  SessionTypes' /\ csPool' \subseteq csPool
  <1>1. csPool' \subseteq csPool
    BY DEF ReleaseOk, ReleaseFails, DeleteSocketFails
  <1>2. /\ csConn' \in [CmSessions -> 0 .. CmConns]
        /\ csStart' \in [CmSessions -> 0 .. CmLastTime]
        /\ csLast' \in [CmSessions -> 0 .. CmLastTime]
    <2>1. CASE ReleaseOk(s, deletes)
      <3>1. 0 \in 0 .. CmConns /\ 0 \in 0 .. CmLastTime
        BY Numbers
      <3> QED
        BY <2>1, <3>1, OpenedTypes DEF ReleaseOk, CloseSocket, IInv
    <2>2. CASE ReleaseFails(s, deletes) \/ DeleteSocketFails(s)
      BY <2>2 DEF ReleaseFails, DeleteSocketFails, csSession, IInv, SessionTypes
    <2> QED
      BY <2>1, <2>2
  <1> QED
    BY <1>1, <1>2 DEF IInv, SessionTypes

LEMMA ReleaseSession ==
    ASSUME IInv, NEW s \in CmSessions, NEW t \in CmSessions, t # s, NEW deletes,
           UNCHANGED <<csFree, csProxies>>,
           ReleaseOk(s, deletes) \/ ReleaseFails(s, deletes) \/ DeleteSocketFails(s)
    PROVE  TablesWithin(t)
  <1>1. CASE ReleaseOk(s, deletes)
    BY <1>1, ReleasedOthers DEF IInv
  <1>2. CASE ReleaseFails(s, deletes) \/ DeleteSocketFails(s)
    BY <1>2, TablesSame DEF ReleaseFails, DeleteSocketFails, csSession
  <1> QED
    BY <1>1, <1>2

LEMMA HandlerReleasesStep ==
    ASSUME IInv, NEW p \in CmProcs, NEW deletes \in BOOLEAN, HandlerReleases(p, deletes),
           csAt[p].pc \in {"drop", "release", "close"},
           deletes \/ csAt[p].pc \in Holding
    PROVE  IInv'
  <1> PICK s : s = csAt[p].s
    OBVIOUS
  <1>1. /\ CmGoes(p, "insert")
        /\ UNCHANGED <<csFree, csQueue, csProxies, csNow, csAccepted, csCrossed>>
        /\ \/ ReleaseOk(s, deletes) /\ csSuspect' = csSuspect
           \/ /\ ReleaseFails(s, deletes) \/ DeleteSocketFails(s)
              /\ csSuspect' = csSuspect \cup {s}
    BY DEF HandlerReleases, SessionOf
  <1>2. s \in CmSessions
    BY PlaceFacts
  <1>3. /\ ProcTypes' /\ Others(p) /\ csAt'[p].pc = "insert" /\ csAt'[p].s = s
    <2>1. "insert" \in Stages /\ "insert" \notin NoEvent
      BY StageKinds DEF Freeing
    <2> QED
      BY <1>1, <2>1, Goes, PlaceFacts
  <1>4. SessionTypes' /\ csPool' \subseteq csPool
    BY <1>1, <1>2, ReleaseTypes
  <1>5. ListTypes' /\ AnswersToOwner' /\ csSuspect \subseteq csSuspect'
    BY <1>1, NotCrossing, PlaceFacts DEF ListTypes
  <1>6. \A t \in CmSessions \ {s} :
            TablesWithin(t) /\ ProcsWithin(t) /\ \E k \in Nat : QueueWithin(t, k)
    <2> SUFFICES ASSUME NEW t \in CmSessions \ {s}
                 PROVE  TablesWithin(t) /\ ProcsWithin(t) /\ QueueWithin(t, 0)
      OBVIOUS
    <2> QED
      BY <1>1, <1>2, <1>3, ReleaseSession, ProcsElsewhere, QueueSame
  <1>7. ASSUME s \notin csSuspect' PROVE SessionOK(s)'
    <2>1. ReleaseOk(s, deletes) /\ SessionOK(s)
      BY <1>1, <1>2, <1>7 DEF IInv, SessionsOK
    <2>2. deletes \/ p \in ByProc(s)
      BY DEF ByProc
    <2> QED
      BY <1>1, <1>2, <1>3, <2>1, <2>2, SessionReleased, PlaceFacts DEF Freeing
  <1> QED
    BY <1>3, <1>4, <1>5, <1>6, <1>7, About

\* The check of unused sockets releases a session that is too old.
LEMMA ScanReleasesStep ==
    ASSUME IInv, NEW p \in CmProcs, ScanReleases(p)
    PROVE  IInv'
  <1> PICK s : s = csAt[p].s
    OBVIOUS
  <1>1. /\ csAt[p].pc = "expire"
        /\ UNCHANGED <<csFree, csQueue, csProxies, csNow, csAccepted, csCrossed>>
        /\ \/ ReleaseOk(s, TRUE) /\ CmGoes(p, "expired") /\ csSuspect' = csSuspect
           \/ DeleteSocketFails(s) /\ CmGoes(p, "expired") /\ csSuspect' = csSuspect \cup {s}
           \/ ReleaseFails(s, TRUE) /\ CmEnds(p) /\ csSuspect' = csSuspect
    BY DEF ScanReleases, SessionOf, CmAt
  <1>2. s \in CmSessions /\ csAt[p].conn = 0
    BY <1>1, PlaceFacts, StageKinds
  <1>3. /\ ProcTypes' /\ Others(p)
        /\ \/ csAt'[p].pc = "expired" /\ csAt'[p].s = s
           \/ csAt'[p].pc \notin Holding
        /\ CmGoes(p, "expired") => csAt'[p].pc = "expired" /\ csAt'[p].s = s
    <2>1. CASE CmGoes(p, "expired")
      BY <1>1, <1>2, <2>1, Goes, PlaceFacts, StageKinds
    <2>2. CASE CmEnds(p) /\ ~ CmGoes(p, "expired")
      BY <2>2, Ends, PlaceFacts
    <2> QED
      BY <1>1, <2>1, <2>2
  <1>4. SessionTypes' /\ csPool' \subseteq csPool
    BY <1>1, <1>2, ReleaseTypes
  <1>5. ListTypes' /\ AnswersToOwner' /\ csSuspect \subseteq csSuspect'
    BY <1>1, NotCrossing, PlaceFacts DEF ListTypes
  <1>6. \A t \in CmSessions \ {s} :
            TablesWithin(t) /\ ProcsWithin(t) /\ \E k \in Nat : QueueWithin(t, k)
    <2> SUFFICES ASSUME NEW t \in CmSessions \ {s}
                 PROVE  TablesWithin(t) /\ ProcsWithin(t) /\ QueueWithin(t, 0)
      OBVIOUS
    <2> QED
      BY <1>1, <1>2, <1>3, ReleaseSession, ProcsElsewhere, QueueSame
  <1>7. ASSUME s \notin csSuspect' PROVE SessionOK(s)'
    <2>0. SessionOK(s)
      BY <1>1, <1>2, <1>7 DEF IInv, SessionsOK
    <2>1. CASE ReleaseOk(s, TRUE) /\ CmGoes(p, "expired")
      BY <1>1, <1>2, <1>3, <2>0, <2>1, SessionReleased, PlaceFacts DEF Freeing
    <2>2. CASE ReleaseFails(s, TRUE) /\ CmEnds(p)
      <3>1. csAt'[p].pc \notin Holding
        BY <2>2, Ends, PlaceFacts
      <3>2. TablesWithin(s) /\ ProcsWithin(s) /\ QueueWithin(s, 0)
        BY <1>1, <1>3, <1>4, <2>2, <3>1, TablesSame, ProcsElsewhere, QueueSame
           DEF ReleaseFails, csSession
      <3> QED
        BY <2>0, <3>2, Kept
    <2> QED
      BY <1>1, <1>7, <2>1, <2>2
  <1> QED
    BY <1>3, <1>4, <1>5, <1>6, <1>7, About

\* A session is made free: by the processor that released it.
LEMMA FreeStep ==
    ASSUME IInv, NEW p \in CmProcs, InsertFree(p) \/ ScanInserts(p)
    PROVE  IInv'
  <1> PICK s : s = csAt[p].s
    OBVIOUS
  <1>1. /\ csAt[p].pc \in {"insert", "expired"}
        /\ csFree' = csFree \cup {s}
        /\ UNCHANGED <<csConn, csPool, csQueue, csProxies, csNow, csAccepted, csSuspect, csCrossed>>
    BY DEF InsertFree, ScanInserts, SessionOf, CmAt, csSession, csBounds, csHistory
  <1>2. s \in CmSessions
    BY <1>1, PlaceFacts
  <1>3. ProcTypes' /\ Others(p) /\ csAt'[p].pc \notin Holding
    <2>1. CASE InsertFree(p)
      BY <2>1, Ends, PlaceFacts DEF InsertFree
    <2>2. CASE ScanInserts(p)
      BY <2>2, NextSession, PlaceFacts DEF ScanInserts, CmAt
    <2> QED
      BY <2>1, <2>2
  <1>4. /\ csStart' \in [CmSessions -> 0 .. CmLastTime]
        /\ csLast' \in [CmSessions -> 0 .. CmLastTime]
        /\ \A t \in CmSessions \ {s} : csStart'[t] = csStart[t]
        /\ csStart'[s] \in {0, csStart[s]}
    <2>1. /\ csStart \in [CmSessions -> 0 .. CmLastTime]
          /\ csLast \in [CmSessions -> 0 .. CmLastTime] /\ 0 \in 0 .. CmLastTime
      BY PlaceFacts, Numbers DEF SessionTypes
    <2>2. CASE UNCHANGED <<csStart, csLast>>
      BY <2>1, <2>2
    <2>3. CASE resetSession(s)
      BY <1>2, <2>1, <2>3 DEF resetSession
    <2> QED
      BY <2>2, <2>3 DEF InsertFree, ScanInserts, SessionOf, csSession
  <1>5. SessionTypes' /\ ListTypes' /\ AnswersToOwner'
    BY <1>1, <1>2, <1>4, NotCrossing, PlaceFacts DEF SessionTypes, ListTypes
  <1>6. \A t \in CmSessions \ {s} :
            TablesWithin(t) /\ ProcsWithin(t) /\ \E k \in Nat : QueueWithin(t, k)
    <2> SUFFICES ASSUME NEW t \in CmSessions \ {s}
                 PROVE  TablesWithin(t) /\ ProcsWithin(t) /\ QueueWithin(t, 0)
      OBVIOUS
    <2>1. TablesWithin(t)
      BY <1>1, <1>4 DEF TablesWithin, InPool, ByProxy
    <2> QED
      BY <1>1, <1>3, <2>1, ProcsElsewhere, QueueSame
  <1>7. ASSUME s \notin csSuspect' PROVE SessionOK(s)'
    <2>1. SessionOK(s) /\ p \in ByProc(s)
      BY <1>1, <1>2, <1>7 DEF IInv, SessionsOK, ByProc, Holding, Freeing
    <2>2. Closed(s)
      BY <1>1, <2>1 DEF SessionOK, Freeing
    <2>3. InPool(s) = {} /\ InQueue(s) = {} /\ ByProxy(s) = {} /\ ByProc(s) = {p}
      BY <2>1, TheToken
    <2>4. InPool(s)' = {} /\ InQueue(s)' = {} /\ ByProxy(s)' = {}
      BY <1>1, <2>3, QueueSame DEF InPool, ByProxy
    <2>5. ByProc(s)' = {}
      BY <1>3, <2>3, ProcsElsewhere
    <2>6. Closed(s)'
      BY <1>1, <1>4, <2>2 DEF Closed
    <2> QED
      BY <2>4, <2>5, <2>6, NoneLeft DEF NoToken
  <1> QED
    BY <1>1, <1>3, <1>5, <1>6, <1>7, About

LEMMA QueueTail ==
    ASSUME csQueue \in Seq(Entry), csQueue # <<>>, csQueue' = Tail(csQueue)
    PROVE  /\ csQueue' \in Seq(Entry) /\ Head(csQueue) \in Entry
           /\ 1 \in InQueue(Head(csQueue).s) /\ csQueue[1] = Head(csQueue)
           /\ \A t : QueueWithin(t, 1)
           /\ \A t : InQueue(t) \subseteq {1} => InQueue(t)' = {}
  <1>1. /\ Len(csQueue) \in Nat /\ Len(csQueue) >= 1 /\ csQueue' \in Seq(Entry)
        /\ Len(csQueue') = Len(csQueue) - 1
        /\ \A i \in 1 .. Len(csQueue') : csQueue'[i] = csQueue[i + 1]
        /\ Head(csQueue) = csQueue[1]
    OBVIOUS
  <1>2. Head(csQueue) \in Entry /\ 1 \in 1 .. Len(csQueue)
    BY <1>1
  <1>3. ASSUME NEW t PROVE QueueWithin(t, 1)
    <2> SUFFICES ASSUME NEW i \in InQueue(t)'
                 PROVE  i + 1 \in InQueue(t) /\ csQueue'[i] = csQueue[i + 1]
      BY DEF QueueWithin
    <2>1. i \in 1 .. Len(csQueue') /\ csQueue'[i].s = t
      BY DEF InQueue
    <2>2. i + 1 \in 1 .. Len(csQueue) /\ csQueue'[i] = csQueue[i + 1]
      BY <1>1, <2>1
    <2> QED
      BY <2>1, <2>2 DEF InQueue
  <1>4. ASSUME NEW t, InQueue(t) \subseteq {1} PROVE InQueue(t)' = {}
    <2> SUFFICES ASSUME NEW i \in InQueue(t)' PROVE FALSE
      OBVIOUS
    <2>1. i \in 1 .. Len(csQueue')
      BY DEF InQueue
    <2>2. i + 1 \in InQueue(t)
      BY <1>3 DEF QueueWithin
    <2>3. i + 1 = 1
      BY <1>4, <2>2
    <2> QED
      BY <1>1, <2>1, <2>3
  <1> QED
    BY <1>1, <1>2, <1>3, <1>4 DEF InQueue

LEMMA QueueAppend ==
    ASSUME csQueue \in Seq(Entry), NEW e \in Entry, csQueue' = Append(csQueue, e)
    PROVE  /\ csQueue' \in Seq(Entry)
           /\ \A t : t # e.s => QueueWithin(t, 0)
           /\ csQueue'[Len(csQueue) + 1] = e
           /\ InQueue(e.s) = {} => InQueue(e.s)' \subseteq {Len(csQueue) + 1}
  <1>1. /\ Len(csQueue) \in Nat /\ csQueue' \in Seq(Entry)
        /\ Len(csQueue') = Len(csQueue) + 1
        /\ \A i \in 1 .. Len(csQueue) : csQueue'[i] = csQueue[i]
        /\ csQueue'[Len(csQueue) + 1] = e
    OBVIOUS
  <1>2. \A i \in 1 .. Len(csQueue') : i \in 1 .. Len(csQueue) \/ i = Len(csQueue) + 1
    BY <1>1
  <1>3. ASSUME NEW t, t # e.s PROVE QueueWithin(t, 0)
    <2> SUFFICES ASSUME NEW i \in InQueue(t)'
                 PROVE  i + 0 \in InQueue(t) /\ csQueue'[i] = csQueue[i + 0]
      BY DEF QueueWithin
    <2>1. i \in 1 .. Len(csQueue') /\ csQueue'[i].s = t
      BY DEF InQueue
    <2>2. i \in 1 .. Len(csQueue) /\ i + 0 = i
      BY <1>1, <1>2, <1>3, <2>1
    <2> QED
      BY <1>1, <2>1, <2>2 DEF InQueue
  <1>4. ASSUME InQueue(e.s) = {} PROVE InQueue(e.s)' \subseteq {Len(csQueue) + 1}
    BY <1>1, <1>2, <1>4 DEF InQueue
  <1> QED
    BY <1>1, <1>3, <1>4

\* An event of the queue goes to a processor.
LEMMA ReadyToReadStep ==
    ASSUME IInv, NEW p \in CmProcs, ReadyToRead(p)
    PROVE  IInv'
  <1> PICK e : e = Head(csQueue)
    OBVIOUS
  <1> PICK s : s = e.s
    OBVIOUS
  <1> DEFINE a == [CmIdle EXCEPT !.pc = "read", !.s = e.s, !.start = e.start, !.conn = e.conn]
  <1>1. /\ csAt[p].pc = "idle" /\ csQueue # <<>> /\ csQueue' = Tail(csQueue)
        /\ csAt' = [csAt EXCEPT ![p] = a]
        /\ UNCHANGED <<csFree, csSession, csPool, csProxies, csNow, csAccepted, csSuspect, csCrossed>>
    BY DEF ReadyToRead, CmAt, csBounds, csHistory
  <1>2. /\ csQueue' \in Seq(Entry) /\ e \in Entry
        /\ 1 \in InQueue(s) /\ csQueue[1] = e
        /\ \A t : QueueWithin(t, 1)
        /\ \A t : InQueue(t) \subseteq {1} => InQueue(t)' = {}
    BY <1>1, QueueTail, PlaceFacts DEF ListTypes
  <1>3. s \in CmSessions
    BY <1>2 DEF Entry
  <1>4. PlaceOK(a) /\ a.pc = "read" /\ a.s = s /\ a.start = e.start /\ a.conn = e.conn
    <2>1. "read" \in Stages /\ "read" \notin NoEvent
      BY StageKinds DEF Reading
    <2>2. CmIdle \in Place
      BY IdleOK DEF PlaceOK
    <2>3. a \in Place /\ a.pc = "read" /\ a.s = s /\ a.start = e.start /\ a.conn = e.conn
      BY <1>2, <2>1, <2>2 DEF Place, Entry
    <2> QED
      BY <1>3, <2>1, <2>3 DEF PlaceOK
  <1> HIDE DEF a
  <1>5. ProcTypes' /\ csAt'[p] = a /\ Others(p)
    BY <1>1, <1>4, ProcSteps, PlaceFacts
  <1>6. SessionTypes' /\ ListTypes' /\ AnswersToOwner'
    BY <1>1, <1>2, Unmoved, NotCrossing, PlaceFacts DEF csSession, ListTypes
  <1>7. \A t \in CmSessions \ {s} :
            TablesWithin(t) /\ ProcsWithin(t) /\ \E k \in Nat : QueueWithin(t, k)
    <2> SUFFICES ASSUME NEW t \in CmSessions \ {s}
                 PROVE  TablesWithin(t) /\ ProcsWithin(t) /\ QueueWithin(t, 1)
      OBVIOUS
    <2> QED
      BY <1>1, <1>2, <1>4, <1>5, TablesSame, ProcsElsewhere DEF csSession
  <1>8. ASSUME s \notin csSuspect' PROVE SessionOK(s)'
    <2>1. SessionOK(s)
      BY <1>1, <1>3, <1>8 DEF IInv, SessionsOK
    <2>2. /\ InPool(s) = {} /\ InQueue(s) = {1} /\ ByProxy(s) = {} /\ ByProc(s) = {}
          /\ s \notin csFree
      BY <1>2, <2>1, TheToken
    <2>3. InPool(s)' = {} /\ InQueue(s)' = {} /\ ByProxy(s)' = {} /\ s \notin csFree'
      BY <1>1, <1>2, <2>2 DEF InPool, ByProxy
    <2>4. ByProc(s)' \subseteq {p}
      BY <1>5, <2>2 DEF ByProc, Others
    <2>5. e.conn = csConn[s] /\ e.start = csStart[s] /\ e.conn # 0
      BY <1>2, <2>1 DEF SessionOK, Current
    <2>6. Current(csAt[p])' /\ csAt'[p].pc = "read"
      <3>1. csConn' = csConn /\ csStart' = csStart
        BY <1>1 DEF csSession
      <3> QED
        BY <1>4, <1>5, <2>5, <3>1 DEF Current
    <2>7. (/\ csAt[p].pc \in Reading => Current(csAt[p])
           /\ csAt[p].pc \in Accepting => csConn[s] # 0
           /\ csAt[p].pc \in Freeing => Closed(s))'
      BY <2>6 DEF Accepting, Freeing
    <2> QED
      BY <2>3, <2>4, <2>7, OnlyProc
  <1> QED
    BY <1>1, <1>5, <1>6, <1>7, <1>8, About

\* A socket of the pool becomes an event.
LEMMA SocketReadableStep ==
    ASSUME IInv, NEW e0 \in csPool, SocketReadable(e0[1], e0[2])
    PROVE  IInv'
  <1> PICK s : s = e0[1]
    OBVIOUS
  <1> PICK e : e = Event(s)
    OBVIOUS
  <1>1. /\ Fd(s) \in csPool /\ csQueue' = Append(csQueue, e) /\ csPool' = csPool \ {Fd(s)}
        /\ UNCHANGED <<csFree, csConn, csStart, csLast, csProxies, csAt, csNow, csAccepted,
                       csSuspect, csCrossed>>
    BY DEF SocketReadable, Deleted, csSession, csBounds, csHistory
  <1>2. /\ SessionTypes /\ ListTypes /\ ProcTypes /\ AnswersToOwner
    BY DEF IInv
  <1>3. s \in CmSessions
    BY <1>2 DEF SessionTypes
  <1>4. e \in Entry /\ e.s = s /\ e.conn = csConn[s] /\ e.start = csStart[s]
    BY <1>2, <1>3 DEF SessionTypes, Entry, Event
  <1>5. /\ csQueue' \in Seq(Entry)
        /\ \A t : t # s => QueueWithin(t, 0)
        /\ csQueue'[Len(csQueue) + 1] = e
        /\ InQueue(s) = {} => InQueue(s)' \subseteq {Len(csQueue) + 1}
    BY <1>1, <1>2, <1>4, QueueAppend DEF ListTypes
  <1>6. SessionTypes' /\ ListTypes'
    BY <1>1, <1>2, <1>5 DEF SessionTypes, ListTypes
  <1>7. ProcTypes' /\ AnswersToOwner'
    BY <1>1, <1>2, NotCrossing DEF ProcTypes, PlaceOK
  <1>8. \A t \in CmSessions \ {s} :
            TablesWithin(t) /\ ProcsWithin(t) /\ \E k \in Nat : QueueWithin(t, k)
    BY <1>1, <1>5, TablesSame, ProcsSame
  <1>9. ASSUME s \notin csSuspect' PROVE SessionOK(s)'
    <2>1. SessionOK(s) /\ csConn[s] \in InPool(s)
      BY <1>1, <1>2, <1>3, <1>9, PoolOf DEF IInv, SessionsOK
    <2>2. /\ InPool(s) = {csConn[s]} /\ InQueue(s) = {} /\ ByProxy(s) = {} /\ ByProc(s) = {}
          /\ s \notin csFree /\ csConn[s] # 0
      BY <2>1, TheToken
    <2>3. InPool(s)' = {}
      <3>1. \A c \in InPool(s)' : c \in InPool(s) /\ <<s, c>> # <<s, csConn[s]>>
        BY <1>1 DEF InPool, Fd
      <3> QED
        BY <2>2, <3>1
    <2>4. ByProxy(s)' = {} /\ ByProc(s)' = {} /\ s \notin csFree'
      BY <1>1, <2>2 DEF ByProxy, ByProc
    <2> PICK i : i = Len(csQueue) + 1
      OBVIOUS
    <2>5. Current(csQueue[i])'
      BY <1>1, <1>4, <1>5, <2>2 DEF Current
    <2>6. InQueue(s)' \subseteq {i}
      BY <1>5, <2>2
    <2> QED
      BY <2>3, <2>4, <2>5, <2>6, OnlyQueue
  <1> QED
    BY <1>1, <1>6, <1>7, <1>8, <1>9, About

-----------------------------------------------------------------------------
(***************************************************************************)
(* Steps that end with the socket in the pool, or not.                     *)
(***************************************************************************)
LEMMA PoolGets ==
    ASSUME SessionTypes, NEW s \in CmSessions, csPool' = csPool \cup {Fd(s)}
    PROVE  /\ csPool' \subseteq CmSessions \X (0 .. CmConns)
           /\ \A t \in CmSessions \ {s} : InPool(t)' = InPool(t)
  <1>1. Fd(s) \in CmSessions \X (0 .. CmConns)
    BY DEF Fd, SessionTypes
  <1> QED
    BY <1>1 DEF SessionTypes, InPool, Fd

\* Whatever a write does: the event is the session's, or nothing happens.
LEMMA Writes ==
    ASSUME IInv, NEW e
    PROVE  /\ WriteError(e) => AnswersToOwner' /\ csPool' = csPool
           /\ WritePart(e) => AnswersToOwner' /\ csPool' = csPool
           /\ WriteFinished(e) => /\ AnswersToOwner' /\ csPool' = csPool \cup {Fd(e.s)}
                                  /\ SameStart(e) /\ csConn[e.s] # 0
  <1>1. AnswersToOwner
    BY DEF IInv
  <1>2. WriteOld(e) => AnswersToOwner' /\ csPool' = csPool
    BY <1>1, NotCrossing DEF WriteOld
  <1>3. WriteFails(e) => AnswersToOwner' /\ csPool' = csPool
    BY <1>1, Crossing DEF WriteFails
  <1>4. WriteNotAdded(e) => AnswersToOwner' /\ csPool' = csPool
    BY <1>1, Crossing DEF WriteNotAdded, addSocketFails
  <1>5. WritePart(e) => AnswersToOwner' /\ csPool' = csPool
    BY <1>1, Crossing DEF WritePart
  <1>6. WriteFinished(e) => /\ AnswersToOwner' /\ csPool' = csPool \cup {Fd(e.s)}
                            /\ SameStart(e) /\ csConn[e.s] # 0
    BY <1>1, Crossing DEF WriteFinished, addSocketOk
  <1> QED
    BY <1>2, <1>3, <1>4, <1>5, <1>6 DEF WriteError

\* A processor puts the socket back, and has it no more.
LEMMA ProcPutsBack ==
    ASSUME IInv, NEW p \in CmProcs, NEW s, s = csAt[p].s,
           csAt[p].pc \in Reading, ProcTypes', Others(p), csAt'[p].pc \notin Holding,
           csPool' = csPool \cup {Fd(s)},
           UNCHANGED <<csFree, csSession, csQueue, csProxies, csNow, csAccepted, csSuspect>>,
           AnswersToOwner'
    PROVE  IInv'
  <1>1. s \in CmSessions
    BY PlaceFacts, StageKinds
  <1>2. /\ csPool' \subseteq CmSessions \X (0 .. CmConns)
        /\ \A t \in CmSessions \ {s} : InPool(t)' = InPool(t)
    BY <1>1, PoolGets, PlaceFacts
  <1>3. SessionTypes' /\ ListTypes'
    BY <1>2, PlaceFacts DEF SessionTypes, ListTypes, csSession
  <1>4. \A t \in CmSessions \ {s} :
            TablesWithin(t) /\ ProcsWithin(t) /\ \E k \in Nat : QueueWithin(t, k)
    <2> SUFFICES ASSUME NEW t \in CmSessions \ {s}
                 PROVE  TablesWithin(t) /\ ProcsWithin(t) /\ QueueWithin(t, 0)
      OBVIOUS
    <2>1. TablesWithin(t)
      BY <1>2 DEF TablesWithin, ByProxy, csSession
    <2> QED
      BY <2>1, ProcsElsewhere, QueueSame
  <1>5. ASSUME s \notin csSuspect' PROVE SessionOK(s)'
    <2>1. SessionOK(s) /\ p \in ByProc(s)
      BY <1>1, <1>5, StageKinds DEF IInv, SessionsOK, ByProc
    <2>2. csConn[s] # 0
      BY <2>1 DEF SessionOK, Current
    <2>3. ByProc(s) = {p} /\ ByProc(s)' = {}
      BY <2>1, TheToken, ProcsElsewhere
    <2>4. ByProxy(s)' = ByProxy(s)
      BY DEF ByProxy
    <2> QED
      BY <1>1, <2>1, <2>2, <2>3, <2>4, BackToPool, PlaceFacts DEF csSession
  <1> QED
    BY <1>3, <1>4, <1>5, About

LEMMA ReadHeaderTimeoutStep ==
    ASSUME IInv, NEW p \in CmProcs, ReadHeaderTimeout(p)
    PROVE  IInv'
  <1> PICK s : s = csAt[p].s
    OBVIOUS
  <1>1. /\ csAt[p].pc = "read" /\ SameStart(csAt[p]) /\ Crosses(csAt[p])
        /\ UNCHANGED <<csFree, csSession, csQueue, csProxies, csNow, csAccepted, csSuspect>>
    BY DEF ReadHeaderTimeout, CmAt
  <1>2. AnswersToOwner' /\ csAt[p].pc \in Reading
    BY <1>1, Crossing, PlaceFacts DEF Reading
  <1>3. CASE addSocketOk(s) /\ HandlerReturns(p)
    <2>1. ProcTypes' /\ Others(p) /\ csAt'[p].pc \notin Holding
      BY <1>3, Returns, PlaceFacts
    <2> QED
      BY <1>1, <1>2, <1>3, <2>1, ProcPutsBack DEF addSocketOk
  <1>4. CASE addSocketFails(s) /\ CmGoes(p, "release")
    <2>1. "release" \in Reading /\ "release" \in Stages
      BY StageKinds DEF Reading
    <2>2. ProcTypes' /\ \A t \in CmSessions : ProcsWithin(t)
      BY <1>2, <1>4, <2>1, GoesOn
    <2> QED
      BY <1>1, <1>2, <1>4, <2>2, QuietPlace DEF addSocketFails
  <1> QED
    BY <1>3, <1>4 DEF ReadHeaderTimeout, SessionOf

\* The request goes on without its body, and the session is suspect.
LEMMA ReadBodyTimeoutStep ==
    ASSUME IInv, NEW p \in CmProcs, ReadBodyTimeout(p)
    PROVE  IInv'
  <1> PICK s : s = csAt[p].s
    OBVIOUS
  <1>1. /\ csAt[p].pc = "read" /\ SameStart(csAt[p]) /\ Crosses(csAt[p])
        /\ csSuspect' = csSuspect \cup {s}
        /\ UNCHANGED <<csFree, csConn, csStart, csQueue, csProxies, csNow, csAccepted>>
        /\ \/ csPool' = csPool \cup {Fd(s)} /\ csLast' = [csLast EXCEPT ![s] = csNow]
           \/ csPool' = csPool /\ csLast' = csLast
    BY DEF ReadBodyTimeout, SessionOf, CmAt, addSocketOk, addSocketFails
  <1>2. AnswersToOwner' /\ csAt[p].pc \in Reading /\ s \in CmSessions
    BY <1>1, Crossing, PlaceFacts DEF Reading
  <1>3. PICK x \in {"proxy", "process", "release"} : CmGoes(p, x)
    BY DEF ReadBodyTimeout
  <1>4. ProcTypes' /\ \A t \in CmSessions : ProcsWithin(t)
    <2>1. x \in Stages /\ x \in Reading
      BY StageKinds DEF Reading
    <2> QED
      BY <1>2, <1>3, <2>1, GoesOn
  <1>5. csLast' \in [CmSessions -> 0 .. CmLastTime]
    <2>1. csNow \in 0 .. CmLastTime /\ csLast \in [CmSessions -> 0 .. CmLastTime]
      BY PlaceFacts, Numbers DEF SessionTypes
    <2> QED
      BY <1>1, <2>1
  <1>6. /\ csPool' \subseteq CmSessions \X (0 .. CmConns)
        /\ \A t \in CmSessions \ {s} : InPool(t)' = InPool(t)
    <2>1. CASE csPool' = csPool \cup {Fd(s)}
      BY <1>2, <2>1, PoolGets, PlaceFacts
    <2>2. CASE csPool' = csPool
      BY <2>2, PlaceFacts DEF SessionTypes, InPool
    <2> QED
      BY <1>1, <2>1, <2>2
  <1>7. SessionTypes' /\ ListTypes'
    BY <1>1, <1>5, <1>6, PlaceFacts DEF SessionTypes, ListTypes
  <1>8. \A t \in CmSessions \ {s} :
            TablesWithin(t) /\ ProcsWithin(t) /\ \E k \in Nat : QueueWithin(t, k)
    <2> SUFFICES ASSUME NEW t \in CmSessions \ {s}
                 PROVE  TablesWithin(t) /\ ProcsWithin(t) /\ QueueWithin(t, 0)
      OBVIOUS
    <2>1. TablesWithin(t)
      BY <1>1, <1>6 DEF TablesWithin, ByProxy
    <2> QED
      BY <1>1, <1>4, <2>1, QueueSame
  <1> QED
    BY <1>1, <1>2, <1>4, <1>7, <1>8, About

\* The program's processing of a request, and the answer to a client whose
\* request cannot be proxied.
LEMMA AnswerStep ==
    ASSUME IInv, NEW p \in CmProcs,
           processReceivedRequest(p) \/ ProcessFails(p) \/ sendErrorToHTTPClient(p)
    PROVE  IInv'
  <1> PICK e : e = csAt[p]
    OBVIOUS
  <1>1. /\ csAt[p].pc \in {"process", "sendError"}
        /\ UNCHANGED <<csFree, csSession, csQueue, csProxies, csNow, csAccepted, csSuspect>>
        /\ WriteFinished(e) \/ WriteError(e)
        /\ HandlerReturns(p) \/ CmGoes(p, "close")
    BY DEF processReceivedRequest, ProcessFails, sendErrorToHTTPClient, CmAt, Writing, HandlerReturns
  <1>2. csAt[p].pc \in Reading
    BY <1>1 DEF Reading
  <1>3. ProcTypes' /\ Others(p) /\ csAt'[p].pc \notin Holding
    <2>1. CASE HandlerReturns(p)
      BY <2>1, Returns, PlaceFacts
    <2>2. CASE CmGoes(p, "close")
      BY <1>2, <2>2, Goes, PlaceFacts, StageKinds
    <2> QED
      BY <1>1, <2>1, <2>2
  <1>4. CASE WriteFinished(e)
    <2>1. csPool' = csPool \cup {Fd(e.s)} /\ AnswersToOwner'
      BY <1>4, Writes
    <2> PICK s : s = e.s
      OBVIOUS
    <2> QED
      BY <1>1, <1>2, <1>3, <2>1, ProcPutsBack
  <1>5. CASE WriteError(e)
    <2>1. csPool' = csPool /\ AnswersToOwner'
      BY <1>5, Writes
    <2>2. \A t \in CmSessions : ProcsWithin(t)
      BY <1>3, ProcsElsewhere
    <2> QED
      BY <1>1, <1>3, <2>1, <2>2, QuietPlace
  <1> QED
    BY <1>1, <1>4, <1>5

\* The proxy thread takes the session over.
LEMMA ProxyStep ==
    ASSUME IInv, NEW p \in CmProcs, manageHTTPProxyRequest(p)
    PROVE  IInv'
  <1> PICK s : s = csAt[p].s
    OBVIOUS
  <1> PICK e : e = [s |-> s, start |-> csAt[p].start, conn |-> csAt[p].conn]
    OBVIOUS
  <1>1. /\ csAt[p].pc = "proxy" /\ csProxies' = csProxies \cup {e} /\ HandlerReturns(p)
        /\ UNCHANGED <<csFree, csSession, csPool, csQueue, csNow, csAccepted, csSuspect, csCrossed>>
    BY DEF manageHTTPProxyRequest, CmAt, SessionOf, csBounds, csHistory
  <1>2. s \in CmSessions /\ csAt[p].pc \in Reading /\ csAt[p] \in Place
    BY <1>1, PlaceFacts DEF Reading
  <1>3. e \in Entry /\ e.s = s /\ e.conn = csAt[p].conn /\ e.start = csAt[p].start
    BY <1>2 DEF Place, Entry
  <1>4. ProcTypes' /\ Others(p) /\ csAt'[p].pc \notin Holding
    BY <1>1, Returns, PlaceFacts
  <1>5. SessionTypes' /\ ListTypes' /\ AnswersToOwner'
    BY <1>1, <1>3, Unmoved, NotCrossing, PlaceFacts DEF csSession, ListTypes
  <1>6. \A t \in CmSessions \ {s} :
            TablesWithin(t) /\ ProcsWithin(t) /\ \E k \in Nat : QueueWithin(t, k)
    <2> SUFFICES ASSUME NEW t \in CmSessions \ {s}
                 PROVE  TablesWithin(t) /\ ProcsWithin(t) /\ QueueWithin(t, 0)
      OBVIOUS
    <2>1. TablesWithin(t)
      BY <1>1, <1>3 DEF TablesWithin, InPool, ByProxy, csSession
    <2> QED
      BY <1>1, <1>4, <2>1, ProcsElsewhere, QueueSame
  <1>7. ASSUME s \notin csSuspect' PROVE SessionOK(s)'
    <2>1. SessionOK(s) /\ p \in ByProc(s)
      BY <1>1, <1>2, <1>7, StageKinds DEF IInv, SessionsOK, ByProc
    <2>2. /\ InPool(s) = {} /\ InQueue(s) = {} /\ ByProxy(s) = {} /\ ByProc(s) = {p}
          /\ s \notin csFree
      BY <2>1, TheToken
    <2>3. InPool(s)' = {} /\ InQueue(s)' = {} /\ ByProc(s)' = {} /\ s \notin csFree'
      <3>1. ByProc(s)' = {}
        BY <1>4, <2>2, ProcsElsewhere
      <3>2. InQueue(s)' = {}
        BY <1>1, <2>2, QueueSame
      <3> QED
        BY <1>1, <2>2, <3>1, <3>2 DEF InPool, csSession
    <2>4. ByProxy(s)' \subseteq {e}
      BY <1>1, <2>2 DEF ByProxy
    <2>5. Current(csAt[p])
      BY <1>2, <2>1 DEF SessionOK
    <2>6. Current(e)'
      <3>1. csConn' = csConn /\ csStart' = csStart
        BY <1>1 DEF csSession
      <3> QED
        BY <1>3, <2>5, <3>1 DEF Current
    <2> QED
      BY <2>3, <2>4, <2>6, OnlyProxy
  <1> QED
    BY <1>1, <1>4, <1>5, <1>6, <1>7, About

\* The steps of a proxy thread.
LEMMA ProxyThreadStep ==
    ASSUME IInv, NEW e \in csProxies, chunkRead(e) \/ closingHttpGet(e) \/ ProxyEndsShort(e)
    PROVE  IInv'
  <1>0. e \in Entry /\ SessionTypes /\ ListTypes /\ ProcTypes /\ AnswersToOwner
    BY DEF IInv, ListTypes
  <1>1. /\ UNCHANGED <<csFree, csSession, csQueue, csAt, csNow, csAccepted, csSuspect>>
        /\ csProxies' \subseteq csProxies
        /\ \/ WriteFinished(e) /\ csProxies' = csProxies \ {e}
           \/ WritePart(e) \/ WriteError(e)
           \/ UNCHANGED <<csPool, csCrossed>>
    BY DEF chunkRead, closingHttpGet, ProxyEndsShort, ProxyEnd, Writing, csBounds, csHistory
  <1>2. ProcTypes' /\ ListTypes' /\ \A t : ProcsWithin(t)
    BY <1>0, <1>1, ProcsSame DEF ProcTypes, PlaceOK, ListTypes
  <1>3. CASE csPool' = csPool /\ AnswersToOwner'
    <2>1. SessionTypes' /\ \A t \in CmSessions : TablesWithin(t)
      BY <1>1, <1>3, Unmoved, TablesSame DEF csSession
    <2> QED
      BY <1>1, <1>2, <1>3, <2>1, Quiet
  <1>4. CASE WriteFinished(e) /\ csProxies' = csProxies \ {e}
    <2> PICK s : s = e.s
      OBVIOUS
    <2>1. s \in CmSessions
      BY <1>0 DEF Entry
    <2>2. csPool' = csPool \cup {Fd(s)} /\ AnswersToOwner' /\ csConn[s] # 0
      BY <1>4, Writes
    <2>3. /\ csPool' \subseteq CmSessions \X (0 .. CmConns)
          /\ \A t \in CmSessions \ {s} : InPool(t)' = InPool(t)
      BY <1>0, <2>1, <2>2, PoolGets
    <2>4. SessionTypes'
      BY <1>0, <1>1, <2>3 DEF SessionTypes, csSession
    <2>5. \A t \in CmSessions \ {s} :
              TablesWithin(t) /\ ProcsWithin(t) /\ \E k \in Nat : QueueWithin(t, k)
      <3> SUFFICES ASSUME NEW t \in CmSessions \ {s}
                   PROVE  TablesWithin(t) /\ ProcsWithin(t) /\ QueueWithin(t, 0)
        OBVIOUS
      <3>1. TablesWithin(t)
        BY <1>1, <2>3 DEF TablesWithin, ByProxy, csSession
      <3> QED
        BY <1>1, <1>2, <3>1, QueueSame
    <2>6. ASSUME s \notin csSuspect' PROVE SessionOK(s)'
      <3>1. SessionOK(s) /\ e \in ByProxy(s)
        BY <1>1, <2>1, <2>6 DEF IInv, SessionsOK, ByProxy
      <3>2. ByProxy(s) = {e} /\ ByProc(s) = {}
        BY <3>1, TheToken
      <3>3. ByProxy(s)' = {}
        BY <1>4, <3>2 DEF ByProxy
      <3>4. ByProc(s)' \subseteq ByProc(s)
        BY <1>1, ProcsSame
      <3> QED
        BY <1>0, <1>1, <2>1, <2>2, <3>1, <3>2, <3>3, <3>4, BackToPool DEF csSession
    <2> QED
      BY <1>1, <1>2, <2>2, <2>4, <2>5, <2>6, About
  <1>5. WritePart(e) \/ WriteError(e) => csPool' = csPool /\ AnswersToOwner'
    BY Writes
  <1>6. UNCHANGED <<csPool, csCrossed>> => csPool' = csPool /\ AnswersToOwner'
    BY <1>0, NotCrossing
  <1> QED
    BY <1>1, <1>3, <1>4, <1>5, <1>6

\* Steps that change no table.
LEMMA StepsElsewhere ==
    ASSUME IInv,
           CmTick \/ (\E e \in csPool : AddEventFails(e[1], e[2])) \/ UNCHANGED sessionsVars
    PROVE  IInv'
  <1>1. /\ UNCHANGED <<csFree, csConn, csStart, csLast, csPool, csQueue, csProxies, csAt,
                       csAccepted, csSuspect, csCrossed>>
        /\ csNow' \in 1 .. CmLastTime
    <2>1. csNow \in 1 .. CmLastTime
      BY DEF IInv, SessionTypes
    <2>2. CASE CmTick
      BY <2>1, <2>2, Numbers DEF CmTick, csSession, csHistory
    <2>3. CASE (\E e \in csPool : AddEventFails(e[1], e[2])) \/ UNCHANGED sessionsVars
      BY <2>1, <2>3 DEF AddEventFails, sessionsVars, csSession, csHistory, csBounds
    <2> QED
      BY <2>2, <2>3
  <1>2. SessionTypes' /\ ListTypes' /\ ProcTypes' /\ AnswersToOwner'
    BY <1>1, NotCrossing DEF IInv, SessionTypes, ListTypes, ProcTypes, PlaceOK
  <1>3. \A t \in CmSessions : TablesWithin(t) /\ ProcsWithin(t)
    BY <1>1, TablesSame, ProcsSame
  <1> QED
    BY <1>1, <1>2, <1>3, Quiet

-----------------------------------------------------------------------------
LEMMA SessionsInit == CsInit => IInv
  <1> SUFFICES ASSUME CsInit PROVE IInv
    OBVIOUS
  <1>1. SessionTypes /\ ListTypes /\ AnswersToOwner
    <2>1. 0 \in 0 .. CmLastTime /\ 0 \in 0 .. CmConns /\ 1 \in 1 .. CmLastTime
      BY Numbers
    <2> QED
      BY <2>1 DEF CsInit, SessionTypes, ListTypes, AnswersToOwner
  <1>2. ProcTypes
    <2>1. csAt = [p \in CmProcs |-> CmIdle]
      BY DEF CsInit
    <2> QED
      BY <2>1, IdleOK DEF ProcTypes
  <1>3. ASSUME NEW s \in CmSessions PROVE SessionOK(s)
    <2>1. InPool(s) = {} /\ InQueue(s) = {} /\ ByProxy(s) = {}
      BY DEF CsInit, InPool, InQueue, ByProxy
    <2>2. ByProc(s) = {}
      BY IdleOK, StageKinds DEF CsInit, ByProc
    <2>3. Closed(s)
      BY DEF CsInit, Closed
    <2> QED
      BY <2>1, <2>2, <2>3 DEF SessionOK, OneToken, AtMostOne, NoToken
  <1> QED
    BY <1>1, <1>2, <1>3 DEF IInv, SessionsOK

LEMMA SessionsStep == IInv /\ [CsNext]_sessionsVars => IInv'
  <1> SUFFICES ASSUME IInv, [CsNext]_sessionsVars PROVE IInv'
    OBVIOUS
  <1>1. ASSUME NEW p \in CmProcs, AcceptBegins(p) \/ ReadyToRead(p) \/ ScanBegins(p) \/ ScanStep(p)
        PROVE  IInv'
    BY <1>1, StepsThatEnd, ReadyToReadStep, ScanReleasesStep, FreeStep DEF ScanStep
  <1>2. ASSUME NEW p \in CmProcs, HandleStep(p) PROVE IInv'
    <2>1. CASE AcceptNone(p) \/ ReadOld(p) \/ ProcessNothing(p)
      BY <2>1, StepsThatEnd
    <2>2. CASE \/ AcceptNoEvent(p) \/ ReadEnds(p) \/ NotToBeProxied(p) \/ ProxyBadRequest(p)
               \/ ProxyParameterMissing(p) \/ ProxyNoWebServer(p)
      BY <2>2, StepsThatGoOn DEF ProxyBadRequest, ProxyParameterMissing, ProxyNoWebServer
    <2>3. CASE AcceptDrops(p) \/ ReadReleases(p)
      BY <2>3, HandlerReleasesStep DEF AcceptDrops, ReadReleases, CmAt, Holding, Accepting, Reading
    <2>4. CASE CloseInCaseOfError(p)
      BY <2>4, HandlerReleasesStep DEF CloseInCaseOfError, CmAt
    <2>5. ASSUME NEW s \in CmSessions,
                 \/ getRemoteAddressFails(p, s) \/ setReceivingTimeoutFails(p, s)
                 \/ setOptionsFails(p, s) \/ acceptConnection(p, s)
          PROVE  IInv'
      BY <2>5, AcceptLostStep, AcceptStep
         DEF getRemoteAddressFails, setReceivingTimeoutFails, setOptionsFails
    <2>6. CASE AcceptHandles(p)
      BY <2>6, AcceptHandlesStep
    <2>7. CASE ReadHeaderTimeout(p) \/ ReadRequest(p) \/ ReadBodyTimeout(p)
      BY <2>7, ReadHeaderTimeoutStep, ReadRequestStep, ReadBodyTimeoutStep
    <2>8. CASE processReceivedRequest(p) \/ ProcessFails(p) \/ sendErrorToHTTPClient(p)
      BY <2>8, AnswerStep
    <2>9. CASE manageHTTPProxyRequest(p)
      BY <2>9, ProxyStep
    <2>10. CASE InsertFree(p)
      BY <2>10, FreeStep
    <2> QED
      BY <1>2, <2>1, <2>2, <2>3, <2>4, <2>5, <2>6, <2>7, <2>8, <2>9, <2>10 DEF HandleStep, ReadStep
  <1>3. ASSUME NEW e \in csProxies, chunkRead(e) \/ closingHttpGet(e) \/ ProxyEndsShort(e)
        PROVE  IInv'
    BY <1>3, ProxyThreadStep
  <1>4. ASSUME NEW e \in csPool, SocketReadable(e[1], e[2]) \/ AddEventFails(e[1], e[2])
        PROVE  IInv'
    BY <1>4, SocketReadableStep, StepsElsewhere
  <1>5. CASE CmTick \/ UNCHANGED sessionsVars
    BY <1>5, StepsElsewhere
  <1> QED
    BY <1>1, <1>2, <1>3, <1>4, <1>5 DEF CsNext

-----------------------------------------------------------------------------
LEMMA SmallSets ==
    ASSUME NEW S, AtMostOne(S)
    PROVE  Cardinality(S) \in {0, 1} /\ (S = {} => Cardinality(S) = 0)
  <1>1. CASE S = {}
    BY <1>1, FS_EmptySet
  <1>2. CASE S # {}
    <2>1. PICK x : S = {x}
      BY <1>2 DEF AtMostOne
    <2> QED
      BY <2>1, FS_Singleton
  <1> QED
    BY <1>1, <1>2

\* The holders that are counted are tokens.
LEMMA HoldersAreTokens ==
    ASSUME IInv, NEW s \in CmSessions, s \notin csSuspect, csConn[s] # 0
    PROVE  Holders(s) <= 1
  <1> DEFINE Mine(e) == e.s = s /\ e.conn = csConn[s]
             A == csPool \cap {Fd(s)}
             B == {i \in 1 .. Len(csQueue) : Mine(csQueue[i])}
             C == {p \in CmProcs : ~CmAt(p, "close") /\ Mine(csAt[p])}
             D == {e \in csProxies : Mine(e)}
  <1>1. SessionOK(s) /\ SessionTypes
    BY DEF IInv, SessionsOK
  <1>2. AtMostOne(A) /\ (A # {} => InPool(s) # {})
    BY <1>1, PoolOf DEF AtMostOne
  <1>3. B \subseteq InQueue(s) /\ D \subseteq ByProxy(s)
    BY DEF InQueue, ByProxy
  <1>4. C \subseteq ByProc(s)
    <2> SUFFICES ASSUME NEW p \in CmProcs, csAt[p].pc # "close", Mine(csAt[p])
                 PROVE  csAt[p].pc \in Holding
      BY DEF ByProc, CmAt
    <2>1. csAt[p].pc \notin NoEvent /\ csAt[p].pc \in Stages
      BY PlaceFacts DEF Place
    <2> QED
      BY <2>1 DEF Stages
  <1>5. /\ AtMostOne(B) /\ AtMostOne(C) /\ AtMostOne(D)
        /\ A # {} => B = {} /\ C = {} /\ D = {}
        /\ B # {} => A = {} /\ C = {} /\ D = {}
        /\ C # {} => A = {} /\ B = {} /\ D = {}
    <2> HIDE DEF A, B, C, D
    <2> QED
      BY <1>1, <1>2, <1>3, <1>4 DEF SessionOK, OneToken, AtMostOne
  <1>6. Holders(s) = Cardinality(A) + Cardinality(B) + Cardinality(C) + Cardinality(D)
    BY DEF Holders
  <1> HIDE DEF A, B, C, D
  <1>7. /\ Cardinality(A) \in {0, 1} /\ (A = {} => Cardinality(A) = 0)
        /\ Cardinality(B) \in {0, 1} /\ (B = {} => Cardinality(B) = 0)
        /\ Cardinality(C) \in {0, 1} /\ (C = {} => Cardinality(C) = 0)
        /\ Cardinality(D) \in {0, 1} /\ (D = {} => Cardinality(D) = 0)
    BY <1>2, <1>5, SmallSets
  <1> QED
    BY <1>5, <1>6, <1>7

(***************************************************************************)
(* The inductive invariant: a session that was released as it should be    *)
(* has one token at most, which tells its connection and start time.       *)
(***************************************************************************)
THEOREM SessionsInvariant == CsSpec => []IInv
  BY SessionsInit, SessionsStep, PTL DEF CsSpec

(***************************************************************************)
(* No session is free while its connection is used, none is with two       *)
(* owners, and what is read from or written to a connection is for the     *)
(* client of the event: for the sessions whose releases succeeded and      *)
(* whose requests came whole.                                              *)
(***************************************************************************)
THEOREM SessionsAreOwned == CsSpec => []SessionsOwned
  <1>1. ASSUME IInv PROVE SessionsOwned
    <2>1. CsTypeOK
      <3>1. \A i \in 1 .. Len(csQueue) : csQueue[i].s \in CmSessions
        <4>1. csQueue \in Seq(Entry) /\ \A e \in Entry : e.s \in CmSessions
          BY <1>1 DEF IInv, ListTypes, Entry
        <4>2. \A i \in 1 .. Len(csQueue) : csQueue[i] \in Entry
          BY <4>1
        <4> QED
          BY <4>1, <4>2
      <3>2. \A p \in CmProcs : csAt[p].s \in CmSessions \cup {0}
        BY <1>1, PlaceFacts DEF Place
      <3> QED
        BY <1>1, <3>1, <3>2 DEF IInv, SessionTypes, CsTypeOK
    <2>2. FreeUnused
      BY <1>1 DEF IInv, SessionTypes, SessionsOK, SessionOK, Closed, FreeUnused
    <2>3. HeldOnlyOnce
      BY <1>1, HoldersAreTokens DEF HeldOnlyOnce
    <2> QED
      BY <1>1, <2>1, <2>2, <2>3 DEF IInv, SessionsOwned
  <1> QED
    BY <1>1, SessionsInvariant, PTL

-----------------------------------------------------------------------------
(***************************************************************************)
(* The events of the server: of each type, every allocated event is in one *)
(* place, and only one that is initialized is in the set.                  *)
(***************************************************************************)
Queued(q, t) == Cardinality({i \in 1 .. Len(q) : q[i].type = t})
Handed(at, t) == Cardinality({p \in CeProcs : at[p].type = t})
OneIf(x, t) == IF x = t THEN 1 ELSE 0

LEMMA QueuedNat ==
    ASSUME NEW S, NEW q \in Seq(S), NEW t
    PROVE  Queued(q, t) \in Nat /\ IsFiniteSet({i \in 1 .. Len(q) : q[i].type = t})
  <1>1. Len(q) \in Nat
    OBVIOUS
  <1>2. IsFiniteSet(1 .. Len(q))
    BY <1>1, FS_Interval
  <1>3. {i \in 1 .. Len(q) : q[i].type = t} \in SUBSET (1 .. Len(q))
    OBVIOUS
  <1>4. IsFiniteSet({i \in 1 .. Len(q) : q[i].type = t})
    BY <1>2, <1>3, FS_Subset, Zenon
  <1> QED
    BY <1>4, FS_CardinalityType DEF Queued

LEMMA QueuedAppend ==
    ASSUME NEW S, NEW q \in Seq(S), NEW x \in S, NEW t
    PROVE  Queued(Append(q, x), t) = Queued(q, t) + OneIf(x.type, t)
  <1> DEFINE A == {i \in 1 .. Len(q) : q[i].type = t}
             B == {i \in 1 .. Len(Append(q, x)) : Append(q, x)[i].type = t}
  <1>1. IsFiniteSet(A) /\ Cardinality(A) \in Nat
    BY QueuedNat DEF Queued
  <1>2. Len(q) \in Nat /\ Len(q) + 1 \notin A
    OBVIOUS
  <1>3. B = IF x.type = t THEN A \cup {Len(q) + 1} ELSE A
    <2>1. /\ Len(Append(q, x)) = Len(q) + 1 /\ Append(q, x)[Len(q) + 1] = x
          /\ \A i \in 1 .. Len(q) : Append(q, x)[i] = q[i]
      OBVIOUS
    <2> QED
      BY <1>2, <2>1
  <1> HIDE DEF A, B
  <1>4. Cardinality(B) = Cardinality(A) + OneIf(x.type, t)
    <2>1. CASE x.type = t
      BY <1>1, <1>2, <1>3, <2>1, FS_AddElement DEF OneIf
    <2>2. CASE x.type # t
      BY <1>1, <1>3, <2>2 DEF OneIf
    <2> QED
      BY <2>1, <2>2
  <1> QED
    BY <1>4 DEF Queued, A, B

LEMMA QueuedTail ==
    ASSUME NEW S, NEW q \in Seq(S), q # <<>>, NEW t
    PROVE  /\ Head(q) \in S /\ Tail(q) \in Seq(S) /\ Queued(Tail(q), t) \in Nat
           /\ Queued(q, t) = Queued(Tail(q), t) + OneIf(Head(q).type, t)
  <1> DEFINE A == {i \in 1 .. Len(q) : q[i].type = t}
             B == {i \in 1 .. Len(Tail(q)) : Tail(q)[i].type = t}
             C == {i \in 2 .. Len(q) : q[i].type = t}
  <1>1. /\ Head(q) = q[1] /\ Head(q) \in S /\ Tail(q) \in Seq(S)
        /\ Len(q) \in Nat /\ Len(q) # 0 /\ Len(Tail(q)) = Len(q) - 1
        /\ \A i \in 1 .. Len(Tail(q)) : Tail(q)[i] = q[i + 1]
    OBVIOUS
  <1>2. IsFiniteSet(B) /\ Cardinality(B) \in Nat
    BY <1>1, QueuedNat DEF Queued
  <1>3. IsFiniteSet(C) /\ Cardinality(C) = Cardinality(B)
    <2> DEFINE f == [i \in B |-> i + 1]
    <2>1. \A i \in B : i \in Nat /\ f[i] = i + 1 /\ i + 1 \in C
      BY <1>1
    <2>2. \A j \in C : j - 1 \in B /\ f[j - 1] = j
      <3>1. ASSUME NEW j \in C PROVE j - 1 \in B
        <4>1. j \in 2 .. Len(q) /\ q[j].type = t /\ j - 1 \in 1 .. Len(Tail(q))
          BY <1>1
        <4>2. Tail(q)[j - 1] = q[(j - 1) + 1] /\ (j - 1) + 1 = j
          BY <1>1, <4>1
        <4> QED
          BY <4>1, <4>2
      <3> QED
        BY <3>1
    <2>3. f \in Bijection(B, C)
      <3>1. f \in [B -> C]
        BY <2>1
      <3>2. \A i, j \in B : f[i] = f[j] => i = j
        BY <2>1
      <3>3. \A j \in C : \E i \in B : f[i] = j
        BY <2>2
      <3> HIDE DEF f, B, C
      <3> QED
        BY <3>1, <3>2, <3>3 DEF Bijection, Injection, Surjection, IsInjective
    <2> HIDE DEF f, B, C
    <2>4. ExistsBijection(B, C)
      BY <2>3 DEF ExistsBijection
    <2> QED
      BY <1>2, <2>4, FS_Bijection
  <1>4. A = (IF Head(q).type = t THEN C \cup {1} ELSE C) /\ 1 \notin C
    BY <1>1
  <1> HIDE DEF A, B, C
  <1>5. Cardinality(A) = Cardinality(B) + OneIf(Head(q).type, t)
    <2>1. CASE Head(q).type = t
      BY <1>2, <1>3, <1>4, <2>1, FS_AddElement DEF OneIf
    <2>2. CASE Head(q).type # t
      BY <1>2, <1>3, <1>4, <2>2 DEF OneIf
    <2> QED
      BY <2>1, <2>2
  <1> QED
    BY <1>1, <1>2, <1>5 DEF Queued, A, B

LEMMA HandedNat ==
    ASSUME NEW at, NEW t
    PROVE  Handed(at, t) \in Nat /\ IsFiniteSet({p \in CeProcs : at[p].type = t})
  <1>1. {p \in CeProcs : at[p].type = t} \in SUBSET CeProcs
    OBVIOUS
  <1>2. IsFiniteSet({p \in CeProcs : at[p].type = t})
    BY <1>1, CeAssumption, FS_Subset, Zenon
  <1> QED
    BY <1>2, FS_CardinalityType DEF Handed

\* What a processor takes in hand or gives away changes the count of two types.
LEMMA HandedTakes ==
    ASSUME NEW p \in CeProcs, NEW at, NEW after, \A c \in CeProcs \ {p} : after[c] = at[c], NEW t
    PROVE  /\ Handed(after, t) + OneIf(at[p].type, t) = Handed(at, t) + OneIf(after[p].type, t)
           /\ Handed(after, t) \in Nat /\ Handed(at, t) \in Nat
  <1> DEFINE A == {c \in CeProcs : at[c].type = t}
             B == {c \in CeProcs : after[c].type = t}
             R == A \ {p}
  <1>1. IsFiniteSet(A) /\ Cardinality(A) \in Nat
    BY HandedNat DEF Handed
  <1>2. /\ (at[p].type = t <=> p \in A) /\ p \notin R
        /\ B = IF after[p].type = t THEN R \cup {p} ELSE R
    OBVIOUS
  <1> HIDE DEF A, B
  <1>3. IsFiniteSet(R) /\ Cardinality(R) = Cardinality(A) - OneIf(at[p].type, t)
    BY <1>1, <1>2, FS_RemoveElement DEF OneIf
  <1> HIDE DEF R
  <1>4. Cardinality(B) = Cardinality(R) + OneIf(after[p].type, t)
    <2>1. CASE after[p].type = t
      BY <1>2, <1>3, <2>1, FS_AddElement, FS_CardinalityType DEF OneIf
    <2>2. CASE after[p].type # t
      BY <1>1, <1>2, <1>3, <2>2 DEF OneIf
    <2> QED
      BY <2>1, <2>2
  <1>5. /\ Cardinality(B) + OneIf(at[p].type, t) = Cardinality(A) + OneIf(after[p].type, t)
        /\ Cardinality(B) \in Nat
    <2>1. OneIf(at[p].type, t) \in {0, 1} /\ OneIf(after[p].type, t) \in {0, 1} /\ Cardinality(R) \in Nat
      BY <1>3, FS_CardinalityType DEF OneIf
    <2> QED
      BY <1>1, <1>3, <1>4, <2>1
  <1> QED
    BY <1>1, <1>5 DEF Handed, A, B

\* An event in hand is initialized unless its init is still to be called.
HandOK(e) == e # CeNone => e.status = IF e.new THEN "built" ELSE "initialized"

\* The books of the events.
Booked(alloc, free, queue, at, local, timer, lost) ==
    \A t \in CeTypes :
        alloc[t] = Len(free[t]) + Queued(queue, t) + Handed(at, t) + Handed(local, t)
                   + OneIf(timer.type, t) + lost[t]

EventsInv ==
    /\ CeTypeOK /\ FreeEventsFinished /\ EventsInitialized
    /\ ceAlloc \in [CeTypes -> Nat]
    /\ HandOK(ceTimer) /\ \A p \in CeProcs : HandOK(ceLocal[p])
    /\ Booked(ceAlloc, ceFree, ceQueue, ceAt, ceLocal, ceTimer, ceLost)

LEMMA EventFacts ==
    /\ CeNone.type = "none" /\ "none" \notin CeTypes
    /\ \A t \in CeTypes : OneIf(CeNone.type, t) = 0
    /\ CeTimed \in SUBSET CeTypes /\ {"connection"} \in SUBSET CeTypes
    /\ \A T \in SUBSET CeTypes : \A e \in CeEvent(T) :
         /\ e # CeNone /\ e.type \in T /\ e.status \in CeStatus /\ e.new \in BOOLEAN
         /\ e \in CeEvent(CeTypes)
         /\ Finished(e) \in CeEvent(T) /\ Finished(e).type = e.type /\ Finished(e).status = "built"
         /\ Initialized(e) \in CeEvent(T) /\ Initialized(e).type = e.type
         /\ Initialized(e).status = "initialized" /\ ~Initialized(e).new
  <1>1. CeNone.type = "none" /\ "none" \notin CeTypes /\ CeTimed \in SUBSET CeTypes /\ {"connection"} \in SUBSET CeTypes
    BY DEF CeNone, CeTypes, CeTimed
  <1>2. ASSUME NEW T \in SUBSET CeTypes, NEW e \in CeEvent(T)
        PROVE  /\ e # CeNone /\ e.type \in T /\ e.status \in CeStatus /\ e.new \in BOOLEAN
               /\ e \in CeEvent(CeTypes)
               /\ Finished(e) \in CeEvent(T) /\ Finished(e).type = e.type /\ Finished(e).status = "built"
               /\ Initialized(e) \in CeEvent(T) /\ Initialized(e).type = e.type
               /\ Initialized(e).status = "initialized" /\ ~Initialized(e).new
    <2>1. e.type \in T /\ e.status \in CeStatus /\ e.new \in BOOLEAN /\ e \in CeEvent(CeTypes)
      BY DEF CeEvent
    <2>2. e # CeNone
      BY <1>1, <2>1
    <2>3. Finished(e) \in CeEvent(T) /\ Finished(e).type = e.type /\ Finished(e).status = "built"
      BY DEF CeEvent, CeStatus, Finished
    <2>4. /\ Initialized(e) \in CeEvent(T) /\ Initialized(e).type = e.type
          /\ Initialized(e).status = "initialized" /\ ~Initialized(e).new
      BY DEF CeEvent, CeStatus, Initialized
    <2> QED
      BY <2>1, <2>2, <2>3, <2>4
  <1> QED
    BY <1>1, <1>2 DEF OneIf

\* Every count of the books is a number.
CountsAt(t) ==
    /\ ceAlloc[t] \in Nat /\ Len(ceFree[t]) \in Nat /\ ceLost[t] \in Nat
    /\ Queued(ceQueue, t) \in Nat /\ Handed(ceAt, t) \in Nat /\ Handed(ceLocal, t) \in Nat
    /\ OneIf(ceTimer.type, t) \in Nat
    /\ ceAlloc[t] = Len(ceFree[t]) + Queued(ceQueue, t) + Handed(ceAt, t) + Handed(ceLocal, t)
                    + OneIf(ceTimer.type, t) + ceLost[t]

LEMMA CountsHold == ASSUME EventsInv, NEW t \in CeTypes PROVE CountsAt(t)
  <1>1. ceFree[t] \in Seq(CeStatus) /\ ceQueue \in Seq(CeEvent(CeTypes)) /\ ceLost[t] \in Nat /\ ceAlloc[t] \in Nat
    BY DEF EventsInv, CeTypeOK
  <1>2. Len(ceFree[t]) \in Nat /\ OneIf(ceTimer.type, t) \in Nat
    BY <1>1 DEF OneIf
  <1> QED
    BY <1>1, <1>2, HandedNat, QueuedNat DEF EventsInv, Booked, CountsAt

LEMMA Counts ==
    ASSUME EventsInv, NEW t \in CeTypes
    PROVE  \E a, f, q, h, l, o, x \in Nat :
             /\ f = Len(ceFree[t]) /\ q = Queued(ceQueue, t) /\ h = Handed(ceAt, t) /\ l = Handed(ceLocal, t)
             /\ o = OneIf(ceTimer.type, t) /\ x = ceLost[t] /\ a = ceAlloc[t] /\ a = f + q + h + l + o + x
  <1>1. CountsAt(t)
    BY CountsHold
  <1> QED
    BY <1>1 DEF CountsAt

LEMMA BookedIsKept == EventsInv => EventsWhole
  <1> SUFFICES ASSUME EventsInv PROVE EventsKept
    BY DEF EventsInv, EventsWhole
  <1>1. ASSUME NEW t \in CeTypes
        PROVE  ceAlloc[t] = Len(ceFree[t]) + Queued(ceQueue, t) + InHand(t) + ceLost[t]
    <2>1. InHand(t) = Handed(ceAt, t) + Handed(ceLocal, t) + OneIf(ceTimer.type, t)
      BY DEF InHand, Handed, OneIf
    <2> QED
      BY <2>1, CountsHold DEF CountsAt
  <1> QED
    BY <1>1 DEF EventsKept, Queued

LEMMA GetFreeEvent ==
    ASSUME EventsInv, NEW t \in CeTypes, NEW e, getFreeEvent(t, e)
    PROVE  /\ ceAlloc' \in [CeTypes -> Nat] /\ ceFree' \in [CeTypes -> Seq(CeStatus)]
           /\ \A y \in CeTimed : ceAlloc'[y] <= 2 * CeBlock
           /\ e = [type |-> t, status |-> "built", new |-> TRUE]
           /\ \A y \in CeTypes : \A i \in 1 .. Len(ceFree'[y]) : ceFree'[y][i] = "built"
           /\ \A y \in CeTypes : ceAlloc'[y] + Len(ceFree[y]) = ceAlloc[y] + Len(ceFree'[y]) + OneIf(t, y)
  <1> DEFINE more == IF ceFree[t] = <<>> THEN CeBlock ELSE 0
             built == [i \in 1 .. more |-> "built"]
             free == ceFree[t] \o built
  <1>1. /\ ceAlloc' = [ceAlloc EXCEPT ![t] = @ + more] /\ ceFree' = [ceFree EXCEPT ![t] = Tail(free)]
        /\ e = [type |-> t, status |-> Head(free), new |-> TRUE]
        /\ ceFree[t] # <<>> \/ (t \in CeTimed => ceAlloc[t] < CeBlock + 1)
    BY CeAssumption DEF getFreeEvent, CanGetEvent, AllocatesMore, EventsInv, CeTypeOK
  <1>2. /\ ceFree \in [CeTypes -> Seq(CeStatus)] /\ ceAlloc \in [CeTypes -> Nat] /\ CeBlock \in Nat \ {0}
        /\ ceFree[t] \in Seq(CeStatus)
        /\ \A y \in CeTimed : ceAlloc[y] <= 2 * CeBlock /\ y \in CeTypes
        /\ \A y \in CeTypes : \A i \in 1 .. Len(ceFree[y]) : ceFree[y][i] = "built"
    BY CeAssumption DEF EventsInv, CeTypeOK, FreeEventsFinished, CeTypes
  <1>3. more \in Nat /\ (ceFree[t] = <<>> => more > 0) /\ Len(ceFree[t]) \in Nat /\ (ceFree[t] # <<>> => Len(ceFree[t]) > 0)
    BY <1>2
  <1>4. built \in Seq(CeStatus) /\ Len(built) = more /\ \A i \in 1 .. more : built[i] = "built"
    BY <1>3 DEF CeStatus
  <1>5. /\ free \in Seq(CeStatus) /\ Len(free) = Len(ceFree[t]) + more /\ Len(free) > 0
        /\ \A i \in 1 .. Len(free) : free[i] = "built"
    <2> HIDE DEF more, built
    <2>1. free \in Seq(CeStatus) /\ Len(free) = Len(ceFree[t]) + more
      <3> HIDE DEF free
      <3>1. free = ceFree[t] \o built
        BY DEF free
      <3> QED
        BY <1>2, <1>4, <3>1, ConcatProperties
    <2>2. ASSUME NEW i \in 1 .. Len(free) PROVE free[i] = "built"
      <3>1. free[i] = IF i <= Len(ceFree[t]) THEN ceFree[t][i] ELSE built[i - Len(ceFree[t])]
        BY <1>2, <1>3, <1>4, <2>1
      <3> QED
        BY <1>2, <1>3, <1>4, <2>1, <3>1
    <2>3. Len(free) > 0
      <3>1. Len(ceFree[t]) > 0 \/ more > 0
        BY <1>3
      <3> QED
        BY <1>3, <2>1, <3>1
    <2> QED
      BY <2>1, <2>2, <2>3
  <1>6. /\ Head(free) = "built" /\ Tail(free) \in Seq(CeStatus) /\ Len(Tail(free)) = Len(ceFree[t]) + more - 1
        /\ \A i \in 1 .. Len(Tail(free)) : Tail(free)[i] = "built"
    <2> HIDE DEF more, free
    <2>1. free # <<>> /\ Head(free) = free[1] /\ Len(Tail(free)) = Len(free) - 1 /\ Tail(free) \in Seq(CeStatus)
      BY <1>5
    <2>2. \A i \in 1 .. Len(Tail(free)) : Tail(free)[i] = free[i + 1]
      BY <1>5, <2>1
    <2> QED
      BY <1>3, <1>5, <2>1, <2>2
  <1>7. ceAlloc[t] + more \in Nat /\ (t \in CeTimed => ceAlloc[t] + more <= 2 * CeBlock)
    BY <1>1, <1>2, <1>3
  <1> HIDE DEF more, free
  <1>8. /\ ceAlloc'[t] = ceAlloc[t] + more /\ ceFree'[t] = Tail(free)
        /\ \A y \in CeTypes \ {t} : ceAlloc'[y] = ceAlloc[y] /\ ceFree'[y] = ceFree[y]
        /\ ceAlloc' \in [CeTypes -> Nat] /\ ceFree' \in [CeTypes -> Seq(CeStatus)]
    BY <1>1, <1>2, <1>6, <1>7
  <1>9. ASSUME NEW y \in CeTypes
        PROVE  ceAlloc'[y] + Len(ceFree[y]) = ceAlloc[y] + Len(ceFree'[y]) + OneIf(t, y)
    <2>1. ceAlloc[y] \in Nat /\ Len(ceFree[y]) \in Nat
      BY <1>2
    <2>2. CASE y = t
      <3>1. Len(ceFree'[y]) = Len(ceFree[y]) + more - 1 /\ ceAlloc'[y] = ceAlloc[y] + more /\ OneIf(t, y) = 1
        BY <1>6, <1>8, <2>2 DEF OneIf
      <3>2. PICK a \in Nat, b \in Nat, n \in Nat : a = ceAlloc[y] /\ b = Len(ceFree[y]) /\ n = more
        BY <1>3, <2>1, SMTT(30)
      <3>3. (a + n) + b = a + (b + n - 1) + 1
        BY <3>2
      <3> QED
        BY <3>1, <3>2, <3>3
    <2>3. CASE y # t
      BY <1>8, <2>1, <2>3 DEF OneIf
    <2> QED
      BY <2>2, <2>3
  <1>10. \A y \in CeTypes : \A i \in 1 .. Len(ceFree'[y]) : ceFree'[y][i] = "built"
    BY <1>2, <1>6, <1>8
  <1>11. \A y \in CeTimed : ceAlloc'[y] <= 2 * CeBlock
    BY <1>2, <1>7, <1>8
  <1> QED
    BY <1>1, <1>6, <1>8, <1>9, <1>10, <1>11

\* An event that is built is given back.
LEMMA ReleaseEvent ==
    ASSUME EventsInv, NEW e \in CeEvent(CeTypes), e.status = "built", releaseEvent(e)
    PROVE  /\ ceFree' \in [CeTypes -> Seq(CeStatus)] /\ ceAlloc' = ceAlloc
           /\ \A y \in CeTypes : \A i \in 1 .. Len(ceFree'[y]) : ceFree'[y][i] = "built"
           /\ \A y \in CeTypes : Len(ceFree'[y]) = Len(ceFree[y]) + OneIf(e.type, y)
  <1>1. /\ ceFree' = [ceFree EXCEPT ![e.type] = Append(@, "built")] /\ ceAlloc' = ceAlloc
        /\ e.type \in CeTypes /\ "built" \in CeStatus
    BY EventFacts DEF releaseEvent, CeStatus
  <1>2. /\ ceFree \in [CeTypes -> Seq(CeStatus)]
        /\ \A y \in CeTypes : \A i \in 1 .. Len(ceFree[y]) : ceFree[y][i] = "built"
    BY DEF EventsInv, CeTypeOK, FreeEventsFinished
  <1>3. PICK x \in CeTypes : x = e.type
    BY <1>1
  <1>4. PICK a : a = Append(ceFree[x], "built")
    OBVIOUS
  <1>5. a \in Seq(CeStatus) /\ Len(a) = Len(ceFree[x]) + 1 /\ \A i \in 1 .. Len(a) : a[i] = "built"
    BY <1>1, <1>2, <1>4
  <1>6. ceFree' = [ceFree EXCEPT ![x] = a]
    BY <1>1, <1>3, <1>4
  <1>7. /\ ceFree' \in [CeTypes -> Seq(CeStatus)] /\ ceFree'[x] = a
        /\ \A y \in CeTypes \ {x} : ceFree'[y] = ceFree[y]
    BY <1>2, <1>5, <1>6
  <1>8. ASSUME NEW y \in CeTypes PROVE Len(ceFree'[y]) = Len(ceFree[y]) + OneIf(e.type, y)
    <2>1. Len(ceFree[y]) \in Nat
      BY <1>2
    <2>2. CASE y = x
      BY <1>3, <1>5, <1>7, <2>2 DEF OneIf
    <2>3. CASE y # x
      <3>1. ceFree'[y] = ceFree[y] /\ OneIf(e.type, y) = 0
        BY <1>3, <1>7, <2>3 DEF OneIf
      <3> QED
        BY <2>1, <3>1
    <2> QED
      BY <2>2, <2>3
  <1> QED
    BY <1>1, <1>2, <1>5, <1>7, <1>8

LEMMA TimeOutKeeps ==
    ASSUME EventsInv, NEW t \in CeTimed, TimeOut(t)
    PROVE  EventsInv'
  <1>0. t \in CeTypes /\ OneIf(CeNone.type, t) = 0
    BY EventFacts
  <1> DEFINE AnyEvent == CeEvent(CeTypes)
  <1>1. CASE TimeOutSkips(t)
    BY <1>1 DEF TimeOutSkips, eventsVars, cePool, ceThreads, EventsInv, CeTypeOK, Booked, FreeEventsFinished,
                EventsInitialized
  <1>2. CASE TimeOutGets(t)
    <2>1. getFreeEvent(t, ceTimer') /\ ceTimer = CeNone /\ UNCHANGED <<ceQueue, ceAt, ceLocal, ceThread, ceLost>>
      BY <1>2 DEF TimeOutGets, ceThreads
    <2>2. /\ ceTimer' = [type |-> t, status |-> "built", new |-> TRUE] /\ ceTimer' \in CeEvent(CeTimed)
          /\ ceTimer'.type = t /\ HandOK(ceTimer')
      <3>1. ceTimer' = [type |-> t, status |-> "built", new |-> TRUE]
        BY <1>0, <2>1, GetFreeEvent
      <3>2. PICK e : e = [type |-> t, status |-> "built", new |-> TRUE]
        OBVIOUS
      <3>3. e \in CeEvent(CeTimed) /\ e.type = t /\ HandOK(e)
        BY <3>2 DEF CeEvent, CeStatus, HandOK
      <3> QED
        BY <3>1, <3>2, <3>3
    <2>3. ASSUME NEW y \in CeTypes
          PROVE  ceAlloc'[y] = Len(ceFree'[y]) + Queued(ceQueue, y) + Handed(ceAt, y) + Handed(ceLocal, y)
                               + OneIf(ceTimer'.type, y) + ceLost[y]
      <3>1. /\ ceAlloc'[y] + Len(ceFree[y]) = ceAlloc[y] + Len(ceFree'[y]) + OneIf(t, y)
            /\ ceAlloc'[y] \in Nat /\ ceFree'[y] \in Seq(CeStatus)
        BY <1>0, <2>1, GetFreeEvent
      <3>2. Len(ceFree'[y]) \in Nat /\ OneIf(ceTimer.type, y) = 0 /\ OneIf(t, y) \in Nat
        BY <2>1, <3>1, EventFacts DEF OneIf
      <3>3. OneIf(ceTimer'.type, y) = OneIf(t, y) /\ OneIf(ceTimer'.type, y) \in Nat
        BY <2>2, <3>2
      <3>4. PICK a, f, q, h, l, o, x \in Nat :
             /\ f = Len(ceFree[y]) /\ q = Queued(ceQueue, y) /\ h = Handed(ceAt, y) /\ l = Handed(ceLocal, y)
             /\ o = OneIf(ceTimer.type, y) /\ x = ceLost[y] /\ a = ceAlloc[y] /\ a = f + q + h + l + o + x
        BY Counts
      <3>5. PICK a2, f2, o2 \in Nat :
               /\ a2 = ceAlloc'[y] /\ f2 = Len(ceFree'[y]) /\ o2 = OneIf(ceTimer'.type, y)
               /\ a2 + f = a + f2 + o2
        BY <3>1, <3>2, <3>3, <3>4
      <3>6. a2 = f2 + q + h + l + o2 + x
        <4>1. a = f + q + h + l + o + x /\ a2 + f = a + f2 + o2 /\ o = 0
          BY <3>2, <3>4, <3>5
        <4> QED
          BY <4>1
      <3> QED
        BY <3>4, <3>5, <3>6
    <2> QED
      BY <1>0, <2>1, <2>2, <2>3, GetFreeEvent DEF Booked, FreeEventsFinished, EventsInv, CeTypeOK, EventsInitialized
  <1>3. CASE TimeOutInits(t)
    <2>1. /\ ceTimer.type = t /\ ceTimer' = Initialized(ceTimer)
          /\ UNCHANGED <<ceAlloc, ceFree, ceQueue, ceAt, ceLocal, ceThread, ceLost>>
      BY <1>3 DEF TimeOutInits, ceThreads, cePool
    <2>2. ceTimer' \in CeEvent(CeTimed) /\ ceTimer'.type = t /\ HandOK(ceTimer')
      <3>1. ceTimer \in CeEvent(CeTimed)
        BY <1>0, <2>1, EventFacts DEF EventsInv, CeTypeOK
      <3> QED
        BY <2>1, <3>1, EventFacts DEF HandOK
    <2> QED
      BY <2>1, <2>2 DEF Booked, FreeEventsFinished, EventsInv, CeTypeOK, EventsInitialized
  <1>4. CASE TimeOutAdds(t)
    <2>1. /\ ceTimer.type = t /\ ~ceTimer.new /\ ceQueue' = Append(ceQueue, ceTimer) /\ ceTimer' = CeNone
          /\ UNCHANGED <<ceAlloc, ceFree, ceAt, ceLocal, ceThread, ceLost>>
      BY <1>4 DEF TimeOutAdds, ceThreads, cePool
    <2>2. ceTimer \in AnyEvent /\ ceTimer.status = "initialized"
      <3>1. ceTimer # CeNone
        BY <1>0, <2>1, EventFacts
      <3> QED
        BY <2>1, <3>1, EventFacts DEF EventsInv, CeTypeOK, HandOK
    <2>3. ceQueue \in Seq(AnyEvent) /\ \A i \in 1 .. Len(ceQueue) : ceQueue[i].status = "initialized"
      BY DEF EventsInv, CeTypeOK, EventsInitialized
    <2>4. ceQueue' \in Seq(AnyEvent) /\ \A i \in 1 .. Len(ceQueue') : ceQueue'[i].status = "initialized"
      BY <2>1, <2>2, <2>3
    <2>5. ASSUME NEW y \in CeTypes
          PROVE  ceAlloc[y] = Len(ceFree[y]) + Queued(ceQueue', y) + Handed(ceAt, y) + Handed(ceLocal, y)
                              + OneIf(ceTimer'.type, y) + ceLost[y]
      <3>1. Queued(ceQueue', y) = Queued(ceQueue, y) + OneIf(ceTimer.type, y)
        BY <2>1, <2>2, <2>3, QueuedAppend
      <3>2. OneIf(ceTimer'.type, y) = 0
        BY <2>1, EventFacts
      <3>9. CountsAt(y)
        BY CountsHold
      <3> QED
        BY <3>1, <3>2, <3>9 DEF CountsAt
    <2> QED
      BY <2>1, <2>4, <2>5 DEF Booked, FreeEventsFinished, EventsInv, CeTypeOK, EventsInitialized, HandOK
  <1>5. CASE TimeOutInitFails(t) \/ TimeOutAddFails(t)
    <2>1. PICK e \in AnyEvent : e.status = "built" /\ e.type = t /\ releaseEvent(e)
      <3>1. ceTimer.type = t /\ ceTimer \in AnyEvent /\ HandOK(ceTimer) /\ ceTimer # CeNone
        <4>1. ceTimer.type = t
          BY <1>5 DEF TimeOutInitFails, TimeOutAddFails
        <4>2. ceTimer # CeNone
          BY <1>0, <4>1, EventFacts
        <4> QED
          BY <4>1, <4>2, EventFacts DEF EventsInv, CeTypeOK
      <3>2. CASE TimeOutInitFails(t)
        BY <3>1, <3>2 DEF TimeOutInitFails, HandOK
      <3>3. CASE TimeOutAddFails(t)
        <4>1. /\ releaseEvent(Finished(ceTimer)) /\ Finished(ceTimer) \in AnyEvent
              /\ Finished(ceTimer).status = "built" /\ Finished(ceTimer).type = t
          BY <3>1, <3>3, EventFacts DEF TimeOutAddFails
        <4> QED
          BY <4>1
      <3> QED
        BY <1>5, <3>2, <3>3
    <2>2. ceTimer.type = t /\ ceTimer' = CeNone /\ UNCHANGED <<ceQueue, ceAt, ceLocal, ceThread, ceLost>>
      BY <1>5 DEF TimeOutInitFails, TimeOutAddFails, ceThreads
    <2>3. /\ ceFree' \in [CeTypes -> Seq(CeStatus)] /\ ceAlloc' = ceAlloc
          /\ \A y \in CeTypes : \A i \in 1 .. Len(ceFree'[y]) : ceFree'[y][i] = "built"
          /\ \A y \in CeTypes : Len(ceFree'[y]) = Len(ceFree[y]) + OneIf(t, y)
      BY <2>1, ReleaseEvent
    <2>4. ASSUME NEW y \in CeTypes
          PROVE  ceAlloc[y] = Len(ceFree'[y]) + Queued(ceQueue, y) + Handed(ceAt, y) + Handed(ceLocal, y)
                              + OneIf(ceTimer'.type, y) + ceLost[y]
      <3>1. OneIf(ceTimer'.type, y) = 0 /\ OneIf(ceTimer.type, y) = OneIf(t, y)
        BY <2>2, EventFacts
      <3>9. CountsAt(y)
        BY CountsHold
      <3> QED
        BY <2>3, <3>1, <3>9 DEF CountsAt
    <2> QED
      BY <2>2, <2>3, <2>4 DEF Booked, FreeEventsFinished, EventsInv, CeTypeOK, EventsInitialized, HandOK
  <1> QED
    BY <1>1, <1>2, <1>3, <1>4, <1>5 DEF TimeOut

\* A handler gives the event back that it had got for a connection.
LEMMA LocalGivenBack ==
    ASSUME EventsInv, NEW p \in CeProcs, ceLocal[p] # CeNone, NEW e \in CeEvent(CeTypes),
           e.status = "built", e.type = ceLocal[p].type, GivesLocalBack(p, e)
    PROVE  EventsInv'
  <1>1. /\ releaseEvent(e) /\ ceLocal' = [ceLocal EXCEPT ![p] = CeNone]
        /\ UNCHANGED <<ceQueue, ceTimer, ceAt, ceThread, ceLost>>
    BY DEF GivesLocalBack, ceThreads
  <1>2. /\ ceFree' \in [CeTypes -> Seq(CeStatus)] /\ ceAlloc' = ceAlloc
        /\ \A y \in CeTypes : \A i \in 1 .. Len(ceFree'[y]) : ceFree'[y][i] = "built"
        /\ \A y \in CeTypes : Len(ceFree'[y]) = Len(ceFree[y]) + OneIf(e.type, y)
    BY <1>1, ReleaseEvent
  <1>3. ceLocal \in [CeProcs -> CeEvent({"connection"}) \cup {CeNone}]
    BY DEF EventsInv, CeTypeOK
  <1>4. ceLocal' \in [CeProcs -> CeEvent({"connection"}) \cup {CeNone}] /\ ceLocal'[p] = CeNone
    BY <1>1, <1>3
  <1>5. \A c \in CeProcs \ {p} : ceLocal'[c] = ceLocal[c]
    BY <1>1, <1>3
  <1>6. ASSUME NEW y \in CeTypes
        PROVE  ceAlloc[y] = Len(ceFree'[y]) + Queued(ceQueue, y) + Handed(ceAt, y) + Handed(ceLocal', y)
                            + OneIf(ceTimer.type, y) + ceLost[y]
    <2>1. /\ Handed(ceLocal', y) + OneIf(ceLocal[p].type, y) = Handed(ceLocal, y) + OneIf(ceLocal'[p].type, y)
          /\ Handed(ceLocal', y) \in Nat
      BY <1>5, HandedTakes
    <2>2. OneIf(ceLocal'[p].type, y) = 0 /\ OneIf(ceLocal[p].type, y) = OneIf(e.type, y) /\ OneIf(e.type, y) \in Nat
      BY <1>4, EventFacts DEF OneIf
    <2>3. PICK a, f, q, h, l, o, x \in Nat :
           /\ f = Len(ceFree[y]) /\ q = Queued(ceQueue, y) /\ h = Handed(ceAt, y) /\ l = Handed(ceLocal, y)
           /\ o = OneIf(ceTimer.type, y) /\ x = ceLost[y] /\ a = ceAlloc[y] /\ a = f + q + h + l + o + x
      BY Counts
    <2>4. PICK n, f2, l2 \in Nat :
             /\ n = OneIf(e.type, y) /\ f2 = Len(ceFree'[y]) /\ l2 = Handed(ceLocal', y)
             /\ f2 = f + n /\ l2 + n = l
      BY <1>2, <2>1, <2>2, <2>3
    <2>5. a = f2 + q + h + l2 + o + x
      <3>1. a = f + q + h + l + o + x /\ f2 = f + n /\ l2 + n = l
        BY <2>3, <2>4
      <3> QED
        BY <3>1
    <2> QED
      BY <2>3, <2>4, <2>5
  <1>7. \A c \in CeProcs : HandOK(ceLocal'[c])
    BY <1>4, <1>5 DEF HandOK, EventsInv
  <1> QED
    BY <1>1, <1>2, <1>4, <1>6, <1>7 DEF Booked, FreeEventsFinished, EventsInv, CeTypeOK, EventsInitialized

\* The event for a connection: got, initialized, added or given back.
LEMMA ConnectionKeeps ==
    ASSUME EventsInv, NEW p \in CeProcs, ConnectionGets(p) \/ HandlerStep(p)
    PROVE  EventsInv'
  <1> DEFINE Conn == CeEvent({"connection"})
  <1>0. /\ ceLocal \in [CeProcs -> Conn \cup {CeNone}] /\ HandOK(ceLocal[p])
        /\ ceLocal[p] # CeNone => ceLocal[p] \in Conn /\ ceLocal[p] \in CeEvent(CeTypes)
    <2>1. ceLocal \in [CeProcs -> Conn \cup {CeNone}] /\ HandOK(ceLocal[p])
      BY DEF EventsInv, CeTypeOK
    <2>2. \A e \in Conn : e \in CeEvent(CeTypes)
      BY EventFacts
    <2> HIDE DEF Conn
    <2> QED
      BY <2>1, <2>2
  <1>1. CASE ConnectionGets(p)
    <2>1. PICK e \in Conn : /\ getFreeEvent("connection", e) /\ ceLocal' = [ceLocal EXCEPT ![p] = e]
                            /\ ceLocal[p] = CeNone
                            /\ UNCHANGED <<ceQueue, ceTimer, ceAt, ceThread, ceLost>>
      BY <1>1 DEF ConnectionGets, Handling, ceThreads
    <2>2. "connection" \in CeTypes
      BY DEF CeTypes
    <2>3. /\ e = [type |-> "connection", status |-> "built", new |-> TRUE]
          /\ ceAlloc' \in [CeTypes -> Nat] /\ ceFree' \in [CeTypes -> Seq(CeStatus)]
          /\ \A y \in CeTimed : ceAlloc'[y] <= 2 * CeBlock
          /\ \A y \in CeTypes : \A i \in 1 .. Len(ceFree'[y]) : ceFree'[y][i] = "built"
          /\ \A y \in CeTypes : ceAlloc'[y] + Len(ceFree[y])
                                = ceAlloc[y] + Len(ceFree'[y]) + OneIf("connection", y)
      BY <2>1, <2>2, GetFreeEvent
    <2>4. /\ ceLocal' \in [CeProcs -> Conn \cup {CeNone}] /\ ceLocal'[p] = e
          /\ \A c \in CeProcs \ {p} : ceLocal'[c] = ceLocal[c]
      BY <1>0, <2>1
    <2>5. \A c \in CeProcs : HandOK(ceLocal'[c])
      <3>1. HandOK(e)
        BY <2>3 DEF HandOK
      <3> QED
        BY <2>4, <3>1 DEF EventsInv
    <2>6. ASSUME NEW y \in CeTypes
          PROVE  ceAlloc'[y] = Len(ceFree'[y]) + Queued(ceQueue, y) + Handed(ceAt, y) + Handed(ceLocal', y)
                               + OneIf(ceTimer.type, y) + ceLost[y]
      <3>1. /\ Handed(ceLocal', y) + OneIf(ceLocal[p].type, y) = Handed(ceLocal, y) + OneIf(ceLocal'[p].type, y)
            /\ Handed(ceLocal', y) \in Nat
        BY <2>4, HandedTakes
      <3>2. OneIf(ceLocal'[p].type, y) = OneIf("connection", y) /\ OneIf(ceLocal[p].type, y) = 0
        <4>1. ceLocal'[p].type = "connection"
          BY <2>3, <2>4
        <4> QED
          BY <2>1, <4>1, EventFacts
      <3>3. /\ ceAlloc'[y] + Len(ceFree[y]) = ceAlloc[y] + Len(ceFree'[y]) + OneIf("connection", y)
            /\ ceAlloc'[y] \in Nat /\ ceFree'[y] \in Seq(CeStatus)
        BY <2>3
      <3>4. Len(ceFree'[y]) \in Nat /\ OneIf("connection", y) \in Nat
        BY <3>3 DEF OneIf
      <3>5. PICK a, f, q, h, l, o, x \in Nat :
             /\ f = Len(ceFree[y]) /\ q = Queued(ceQueue, y) /\ h = Handed(ceAt, y) /\ l = Handed(ceLocal, y)
             /\ o = OneIf(ceTimer.type, y) /\ x = ceLost[y] /\ a = ceAlloc[y] /\ a = f + q + h + l + o + x
        BY Counts
      <3>6. PICK n, a2, f2, l2 \in Nat :
               /\ n = OneIf("connection", y) /\ a2 = ceAlloc'[y] /\ f2 = Len(ceFree'[y])
               /\ l2 = Handed(ceLocal', y) /\ l2 = l + n /\ a2 + f = a + f2 + n
        <4>1. PICK n, a2, f2, l2 \in Nat :
                 n = OneIf("connection", y) /\ a2 = ceAlloc'[y] /\ f2 = Len(ceFree'[y]) /\ l2 = Handed(ceLocal', y)
          BY <3>1, <3>3, <3>4
        <4>2. l2 = l + n
          <5>1. l2 + 0 = l + n
            BY <3>1, <3>2, <3>5, <4>1
          <5> QED
            BY <5>1
        <4>3. a2 + f = a + f2 + n
          BY <3>3, <3>5, <4>1
        <4> QED
          BY <4>1, <4>2, <4>3
      <3>7. a2 = f2 + q + h + l2 + o + x
        <4>1. a = f + q + h + l + o + x /\ l2 = l + n /\ a2 + f = a + f2 + n
          BY <3>5, <3>6
        <4> QED
          BY <4>1
      <3> QED
        BY <3>5, <3>6, <3>7
    <2> QED
      BY <2>1, <2>3, <2>4, <2>5, <2>6 DEF Booked, FreeEventsFinished, EventsInv, CeTypeOK, EventsInitialized
  <1>2. CASE ConnectionInits(p)
    <2>1. /\ ceLocal[p] # CeNone /\ ceLocal' = [ceLocal EXCEPT ![p] = Initialized(ceLocal[p])]
          /\ UNCHANGED <<ceAlloc, ceFree, ceQueue, ceTimer, ceAt, ceThread, ceLost>>
      BY <1>2 DEF ConnectionInits, HasLocal, ceThreads, cePool
    <2>2. PICK e : e = Initialized(ceLocal[p])
      OBVIOUS
    <2>3. e \in Conn /\ e.type = ceLocal[p].type /\ HandOK(e)
      BY <1>0, <2>1, <2>2, EventFacts DEF HandOK
    <2>4. /\ ceLocal' \in [CeProcs -> Conn \cup {CeNone}] /\ ceLocal'[p] = e
          /\ \A c \in CeProcs \ {p} : ceLocal'[c] = ceLocal[c]
      BY <1>0, <2>1, <2>2, <2>3
    <2>5. \A c \in CeProcs : HandOK(ceLocal'[c])
      BY <2>3, <2>4 DEF EventsInv
    <2>6. ASSUME NEW y \in CeTypes PROVE Handed(ceLocal', y) = Handed(ceLocal, y)
      <3>1. /\ Handed(ceLocal', y) + OneIf(ceLocal[p].type, y) = Handed(ceLocal, y) + OneIf(ceLocal'[p].type, y)
            /\ Handed(ceLocal', y) \in Nat /\ Handed(ceLocal, y) \in Nat
        <4>1. \A c \in CeProcs \ {p} : ceLocal'[c] = ceLocal[c]
          BY <2>4
        <4> QED
          BY <4>1, HandedTakes
      <3>2. OneIf(ceLocal'[p].type, y) = OneIf(ceLocal[p].type, y) /\ OneIf(ceLocal[p].type, y) \in Nat
        BY <2>3, <2>4 DEF OneIf
      <3> QED
        BY <3>1, <3>2
    <2> QED
      BY <2>1, <2>4, <2>5, <2>6 DEF Booked, FreeEventsFinished, EventsInv, CeTypeOK, EventsInitialized
  <1>3. CASE ConnectionInitFails(p)
    BY <1>0, <1>3, LocalGivenBack DEF ConnectionInitFails, HasLocal, HandOK
  <1>4. CASE ConnectionAccepted(p) \/ ConnectionReadyFails(p)
    <2>1. ceLocal[p] # CeNone /\ GivesLocalBack(p, Finished(ceLocal[p]))
      BY <1>4 DEF ConnectionAccepted, ConnectionReadyFails, HasLocal
    <2>2. /\ Finished(ceLocal[p]) \in CeEvent(CeTypes) /\ Finished(ceLocal[p]).status = "built"
          /\ Finished(ceLocal[p]).type = ceLocal[p].type
      BY <1>0, <2>1, EventFacts
    <2> QED
      BY <2>1, <2>2, LocalGivenBack
  <1>5. CASE ConnectionReady(p)
    <2>1. /\ ceLocal[p] # CeNone /\ ~ceLocal[p].new /\ ceQueue' = Append(ceQueue, ceLocal[p])
          /\ ceLocal' = [ceLocal EXCEPT ![p] = CeNone]
          /\ UNCHANGED <<ceAlloc, ceFree, ceTimer, ceAt, ceThread, ceLost>>
      BY <1>5 DEF ConnectionReady, HasLocal, ceThreads, cePool
    <2>2. PICK e \in CeEvent(CeTypes) : e = ceLocal[p] /\ e.status = "initialized"
      BY <1>0, <2>1 DEF HandOK
    <2>3. ceQueue \in Seq(CeEvent(CeTypes)) /\ \A i \in 1 .. Len(ceQueue) : ceQueue[i].status = "initialized"
      BY DEF EventsInv, CeTypeOK, EventsInitialized
    <2>4. /\ ceQueue' = Append(ceQueue, e) /\ ceQueue' \in Seq(CeEvent(CeTypes))
          /\ \A i \in 1 .. Len(ceQueue') : ceQueue'[i].status = "initialized"
      BY <2>1, <2>2, <2>3
    <2>5. /\ ceLocal' \in [CeProcs -> Conn \cup {CeNone}] /\ ceLocal'[p] = CeNone
          /\ \A c \in CeProcs \ {p} : ceLocal'[c] = ceLocal[c]
      BY <1>0, <2>1
    <2>6. \A c \in CeProcs : HandOK(ceLocal'[c])
      BY <2>5 DEF EventsInv, HandOK
    <2>7. ASSUME NEW y \in CeTypes
          PROVE  ceAlloc[y] = Len(ceFree[y]) + Queued(ceQueue', y) + Handed(ceAt, y) + Handed(ceLocal', y)
                              + OneIf(ceTimer.type, y) + ceLost[y]
      <3>1. /\ Handed(ceLocal', y) + OneIf(ceLocal[p].type, y) = Handed(ceLocal, y) + OneIf(ceLocal'[p].type, y)
            /\ Handed(ceLocal', y) \in Nat
        BY <2>5, HandedTakes
      <3>2. OneIf(ceLocal'[p].type, y) = 0 /\ OneIf(ceLocal[p].type, y) = OneIf(e.type, y) /\ OneIf(e.type, y) \in Nat
        BY <2>2, <2>5, EventFacts DEF OneIf
      <3>3. Queued(ceQueue', y) = Queued(ceQueue, y) + OneIf(e.type, y)
        BY <2>3, <2>4, QueuedAppend
      <3>9. CountsAt(y)
        BY CountsHold
      <3> QED
        BY <3>1, <3>2, <3>3, <3>9 DEF CountsAt
    <2> QED
      BY <2>1, <2>4, <2>5, <2>6, <2>7 DEF Booked, FreeEventsFinished, EventsInv, CeTypeOK, EventsInitialized
  <1> QED
    BY <1>1, <1>2, <1>3, <1>4, <1>5 DEF HandlerStep

\* The processors move events from the set into their hands and give them back.
LEMMA ProcessorKeeps ==
    ASSUME EventsInv, NEW p \in CeProcs,
           \/ ProcessorStarts(p) \/ ProcessorStep(p) \/ ProcessorFails(p) \/ ConnectionGets(p)
           \/ CancelProcessor(p) \/ CancelKills(p)
    PROVE  EventsInv'
  <1> DEFINE AnyEvent == CeEvent(CeTypes)
  <1>0. /\ ceAt \in [CeProcs -> AnyEvent \cup {CeNone}]
        /\ ceThread \in [CeProcs -> {"initialized", "started", "running", "ended"}]
        /\ \A c \in CeProcs : ceAt[c] # CeNone => ceAt[c].status = "initialized"
    BY DEF EventsInv, CeTypeOK, EventsInitialized
  <1>1. CASE \/ ProcessorStarts(p) \/ ProcessorBegins(p) \/ ProcessorWaits(p) \/ ProcessorFails(p)
             \/ CancelProcessor(p)
    <2>1. /\ UNCHANGED <<ceAlloc, ceFree, ceQueue, ceTimer, ceAt, ceLocal, ceLost>>
          /\ ceThread' \in [CeProcs -> {"initialized", "started", "running", "ended"}]
      BY <1>0, <1>1 DEF ProcessorStarts, ProcessorBegins, ProcessorWaits, ProcessorFails, CancelProcessor, cePool
    <2> QED
      BY <2>1 DEF Booked, FreeEventsFinished, EventsInv, CeTypeOK, EventsInitialized
  <1>2. CASE ProcessorTakes(p)
    <2>1. /\ ceAt[p] = CeNone /\ ceQueue # <<>> /\ ceAt' = [ceAt EXCEPT ![p] = Head(ceQueue)]
          /\ ceQueue' = Tail(ceQueue)
          /\ UNCHANGED <<ceAlloc, ceFree, ceTimer, ceLocal, ceThread, ceLost>>
      BY <1>2 DEF ProcessorTakes, cePool, ceThreads
    <2>2. ceQueue \in Seq(AnyEvent) /\ \A i \in 1 .. Len(ceQueue) : ceQueue[i].status = "initialized"
      BY DEF EventsInv, CeTypeOK, EventsInitialized
    <2> HIDE DEF AnyEvent
    <2>3. /\ Head(ceQueue) \in AnyEvent /\ ceQueue' \in Seq(AnyEvent) /\ Head(ceQueue).status = "initialized"
          /\ \A i \in 1 .. Len(ceQueue') : ceQueue'[i].status = "initialized"
      <3>1. /\ Head(ceQueue) = ceQueue[1] /\ Head(ceQueue) \in AnyEvent /\ Tail(ceQueue) \in Seq(AnyEvent)
            /\ 1 \in 1 .. Len(ceQueue)
            /\ \A i \in 1 .. Len(Tail(ceQueue)) : Tail(ceQueue)[i] = ceQueue[i + 1] /\ i + 1 \in 1 .. Len(ceQueue)
        BY <2>1, <2>2
      <3> QED
        BY <2>1, <2>2, <3>1
    <2>4. PICK e \in AnyEvent : e = Head(ceQueue)
      BY <2>3
    <2>5. /\ ceAt' \in [CeProcs -> AnyEvent \cup {CeNone}] /\ ceAt'[p] = e
          /\ \A c \in CeProcs \ {p} : ceAt'[c] = ceAt[c]
          /\ \A c \in CeProcs : ceAt'[c] # CeNone => ceAt'[c].status = "initialized"
      BY <1>0, <2>1, <2>3, <2>4
    <2>6. ASSUME NEW y \in CeTypes
          PROVE  ceAlloc[y] = Len(ceFree[y]) + Queued(ceQueue', y) + Handed(ceAt', y) + Handed(ceLocal, y)
                              + OneIf(ceTimer.type, y) + ceLost[y]
      <3>1. Queued(ceQueue, y) = Queued(ceQueue', y) + OneIf(e.type, y) /\ Queued(ceQueue', y) \in Nat
        BY <2>1, <2>2, <2>4, QueuedTail
      <3>2. /\ Handed(ceAt', y) + OneIf(ceAt[p].type, y) = Handed(ceAt, y) + OneIf(ceAt'[p].type, y)
            /\ Handed(ceAt', y) \in Nat
        BY <2>5, HandedTakes
      <3>3. OneIf(ceAt[p].type, y) = 0 /\ OneIf(ceAt'[p].type, y) = OneIf(e.type, y) /\ OneIf(e.type, y) \in Nat
        BY <2>1, <2>5, EventFacts DEF OneIf
      <3>9. CountsAt(y)
        BY CountsHold
      <3> QED
        BY <3>1, <3>2, <3>3, <3>9 DEF CountsAt
    <2> QED
      BY <2>1, <2>3, <2>5, <2>6 DEF Booked, FreeEventsFinished, EventsInv, CeTypeOK, EventsInitialized, AnyEvent
  <1>3. CASE processEvent(p) \/ processEventFails(p)
    <2>1. ceAt[p].type \in CeTypes /\ Released(p)
      BY <1>3 DEF processEvent, processEventFails, Handling
    <2>2. ceAt[p] # CeNone /\ ceAt[p] \in AnyEvent /\ ceAt[p].status = "initialized"
      BY <1>0, <2>1, EventFacts
    <2>3. /\ releaseEvent(Finished(ceAt[p])) /\ ceAt' = [ceAt EXCEPT ![p] = CeNone]
          /\ LoopTurns(p) /\ UNCHANGED <<ceQueue, ceTimer, ceLocal, ceLost>>
      BY <2>1, <2>2 DEF Released
    <2>4. PICK e \in AnyEvent : e = Finished(ceAt[p]) /\ e.type = ceAt[p].type /\ e.status = "built"
      BY <2>2, EventFacts
    <2>5. ceThread' \in [CeProcs -> {"initialized", "started", "running", "ended"}]
      BY <1>0, <2>3 DEF LoopTurns
    <2>6. /\ ceFree' \in [CeTypes -> Seq(CeStatus)] /\ ceAlloc' = ceAlloc
          /\ \A y \in CeTypes : \A i \in 1 .. Len(ceFree'[y]) : ceFree'[y][i] = "built"
          /\ \A y \in CeTypes : Len(ceFree'[y]) = Len(ceFree[y]) + OneIf(e.type, y)
      BY <2>3, <2>4, ReleaseEvent
    <2>7. /\ ceAt' \in [CeProcs -> AnyEvent \cup {CeNone}] /\ ceAt'[p] = CeNone
          /\ \A c \in CeProcs \ {p} : ceAt'[c] = ceAt[c]
      BY <1>0, <2>3
    <2>8. ASSUME NEW y \in CeTypes
          PROVE  ceAlloc[y] = Len(ceFree'[y]) + Queued(ceQueue, y) + Handed(ceAt', y) + Handed(ceLocal, y)
                              + OneIf(ceTimer.type, y) + ceLost[y]
      <3>1. /\ Handed(ceAt', y) + OneIf(ceAt[p].type, y) = Handed(ceAt, y) + OneIf(ceAt'[p].type, y)
            /\ Handed(ceAt', y) \in Nat
        BY <2>7, HandedTakes
      <3>2. OneIf(ceAt'[p].type, y) = 0 /\ OneIf(ceAt[p].type, y) = OneIf(e.type, y) /\ OneIf(e.type, y) \in Nat
        BY <2>4, <2>7, EventFacts DEF OneIf
      <3>3. PICK a, f, q, h, l, o, x \in Nat :
             /\ f = Len(ceFree[y]) /\ q = Queued(ceQueue, y) /\ h = Handed(ceAt, y) /\ l = Handed(ceLocal, y)
             /\ o = OneIf(ceTimer.type, y) /\ x = ceLost[y] /\ a = ceAlloc[y] /\ a = f + q + h + l + o + x
        BY Counts
      <3>4. PICK n, f2, h2 \in Nat :
               /\ n = OneIf(e.type, y) /\ f2 = Len(ceFree'[y]) /\ h2 = Handed(ceAt', y)
               /\ f2 = f + n /\ h2 + n = h
        BY <2>6, <3>1, <3>2, <3>3
      <3>5. a = f2 + q + h2 + l + o + x
        <4>1. a = f + q + h + l + o + x /\ f2 = f + n /\ h2 + n = h
          BY <3>3, <3>4
        <4> QED
          BY <4>1
      <3> QED
        BY <3>3, <3>4, <3>5
    <2> HIDE DEF AnyEvent
    <2>9. \A c \in CeProcs : ceAt'[c] # CeNone => ceAt'[c].status = "initialized"
      BY <1>0, <2>7
    <2> QED
      BY <2>3, <2>5, <2>6, <2>7, <2>8, <2>9 DEF Booked, FreeEventsFinished, EventsInv, CeTypeOK, EventsInitialized, AnyEvent
  <1>4. CASE CancelKills(p)
    <2>1. /\ ceAt' = [ceAt EXCEPT ![p] = CeNone] /\ ceLocal' = [ceLocal EXCEPT ![p] = CeNone]
          /\ UNCHANGED <<ceAlloc, ceFree, ceQueue, ceTimer>>
          /\ ceLost' = [t \in CeTypes |-> ceLost[t] + OneIf(ceAt[p].type, t) + OneIf(ceLocal[p].type, t)]
          /\ ceThread' = [ceThread EXCEPT ![p] = "ended"]
      BY <1>4 DEF CancelKills, cePool, OneIf
    <2>2. /\ ceLost' \in [CeTypes -> Nat]
          /\ \A y \in CeTypes : ceLost'[y] = ceLost[y] + OneIf(ceAt[p].type, y) + OneIf(ceLocal[p].type, y)
      <3>1. \A y \in CeTypes : ceLost[y] \in Nat /\ OneIf(ceAt[p].type, y) \in Nat /\ OneIf(ceLocal[p].type, y) \in Nat
        BY DEF EventsInv, CeTypeOK, OneIf
      <3> QED
        BY <2>1, <3>1
    <2>3. ceLocal \in [CeProcs -> CeEvent({"connection"}) \cup {CeNone}] /\ \A c \in CeProcs : HandOK(ceLocal[c])
      BY DEF EventsInv, CeTypeOK
    <2>4. /\ ceAt' \in [CeProcs -> AnyEvent \cup {CeNone}] /\ ceAt'[p] = CeNone
          /\ \A c \in CeProcs \ {p} : ceAt'[c] = ceAt[c]
          /\ ceLocal' \in [CeProcs -> CeEvent({"connection"}) \cup {CeNone}] /\ ceLocal'[p] = CeNone
          /\ \A c \in CeProcs \ {p} : ceLocal'[c] = ceLocal[c]
      BY <1>0, <2>1, <2>3
    <2>5. ASSUME NEW y \in CeTypes
          PROVE  ceAlloc[y] = Len(ceFree[y]) + Queued(ceQueue, y) + Handed(ceAt', y) + Handed(ceLocal', y)
                              + OneIf(ceTimer.type, y) + ceLost'[y]
      <3>1. /\ Handed(ceAt', y) + OneIf(ceAt[p].type, y) = Handed(ceAt, y) + OneIf(ceAt'[p].type, y)
            /\ Handed(ceLocal', y) + OneIf(ceLocal[p].type, y) = Handed(ceLocal, y) + OneIf(ceLocal'[p].type, y)
            /\ Handed(ceAt', y) \in Nat /\ Handed(ceLocal', y) \in Nat
        <4>1. \A c \in CeProcs \ {p} : ceAt'[c] = ceAt[c]
          BY <2>4
        <4>2. \A c \in CeProcs \ {p} : ceLocal'[c] = ceLocal[c]
          BY <2>4
        <4>3. /\ Handed(ceAt', y) + OneIf(ceAt[p].type, y) = Handed(ceAt, y) + OneIf(ceAt'[p].type, y)
              /\ Handed(ceAt', y) \in Nat
          BY <4>1, HandedTakes
        <4>4. /\ Handed(ceLocal', y) + OneIf(ceLocal[p].type, y) = Handed(ceLocal, y) + OneIf(ceLocal'[p].type, y)
              /\ Handed(ceLocal', y) \in Nat
          BY <4>2, HandedTakes
        <4> QED
          BY <4>3, <4>4
      <3>2. /\ OneIf(ceAt'[p].type, y) = 0 /\ OneIf(ceLocal'[p].type, y) = 0
            /\ OneIf(ceAt[p].type, y) \in Nat /\ OneIf(ceLocal[p].type, y) \in Nat
        BY <2>4, EventFacts DEF OneIf
      <3>3. PICK a, f, q, h, l, o, x \in Nat :
             /\ f = Len(ceFree[y]) /\ q = Queued(ceQueue, y) /\ h = Handed(ceAt, y) /\ l = Handed(ceLocal, y)
             /\ o = OneIf(ceTimer.type, y) /\ x = ceLost[y] /\ a = ceAlloc[y] /\ a = f + q + h + l + o + x
        BY Counts
      <3>4. PICK n, m, h2, l2, x2 \in Nat :
               /\ n = OneIf(ceAt[p].type, y) /\ m = OneIf(ceLocal[p].type, y)
               /\ h2 = Handed(ceAt', y) /\ l2 = Handed(ceLocal', y) /\ x2 = ceLost'[y]
               /\ h2 + n = h /\ l2 + m = l /\ x2 = x + n + m
        <4>1. PICK n, m, h2, l2, x2 \in Nat :
                 /\ n = OneIf(ceAt[p].type, y) /\ m = OneIf(ceLocal[p].type, y)
                 /\ h2 = Handed(ceAt', y) /\ l2 = Handed(ceLocal', y) /\ x2 = ceLost'[y]
          BY <2>2, <3>1, <3>2
        <4>2. h2 + n = h + 0 /\ l2 + m = l + 0
          BY <3>1, <3>2, <3>3, <4>1
        <4>3. h2 + n = h /\ l2 + m = l
          BY <4>2
        <4>4. x2 = x + n + m
          BY <2>2, <3>3, <4>1
        <4> QED
          BY <4>1, <4>3, <4>4
      <3>5. a = f + q + h2 + l2 + o + x2
        <4>1. a = f + q + h + l + o + x /\ h2 + n = h /\ l2 + m = l /\ x2 = x + n + m
          BY <3>3, <3>4
        <4> QED
          BY <4>1
      <3> QED
        BY <3>3, <3>4, <3>5
    <2> HIDE DEF AnyEvent
    <2>6. /\ \A c \in CeProcs : ceAt'[c] # CeNone => ceAt'[c].status = "initialized"
          /\ \A c \in CeProcs : HandOK(ceLocal'[c])
      BY <1>0, <2>3, <2>4 DEF HandOK
    <2>7. ceThread' \in [CeProcs -> {"initialized", "started", "running", "ended"}]
      BY <1>0, <2>1
    <2> QED
      <3>1. CeTypeOK'
        BY <2>1, <2>2, <2>4, <2>7 DEF EventsInv, CeTypeOK, AnyEvent
      <3>2. FreeEventsFinished' /\ EventsInitialized'
        BY <2>1, <2>6 DEF FreeEventsFinished, EventsInv, EventsInitialized
      <3>3. Booked(ceAlloc, ceFree, ceQueue, ceAt, ceLocal, ceTimer, ceLost)'
        BY <2>1, <2>5 DEF Booked
      <3> QED
        BY <2>1, <2>6, <3>1, <3>2, <3>3 DEF EventsInv
  <1> QED
    BY <1>1, <1>2, <1>3, <1>4, ConnectionKeeps DEF ProcessorStep

\* The books, with what has to hold of the events in hand for them to stay so.
LEMMA EventsInvariant == CeSpec => []EventsInv
  <1>1. CeInit => EventsInv
    <2> SUFFICES ASSUME CeInit PROVE EventsInv
      OBVIOUS
    <2>1. \A t \in CeTypes : Queued(ceQueue, t) = 0 /\ Handed(ceAt, t) = 0 /\ Handed(ceLocal, t) = 0
      <3>1. ASSUME NEW t \in CeTypes
            PROVE  /\ {i \in 1 .. Len(ceQueue) : ceQueue[i].type = t} = {}
                   /\ {p \in CeProcs : ceAt[p].type = t} = {} /\ {p \in CeProcs : ceLocal[p].type = t} = {}
        BY EventFacts DEF CeInit
      <3> QED
        BY <3>1, FS_EmptySet DEF Queued, Handed
    <2>2. \A t \in CeTypes : OneIf(ceTimer.type, t) = 0
      BY EventFacts DEF CeInit
    <2>3. \A t \in CeTypes : ceAlloc[t] = 0 /\ ceFree[t] = <<>> /\ Len(ceFree[t]) = 0 /\ ceLost[t] = 0
      BY DEF CeInit
    <2>4. Booked(ceAlloc, ceFree, ceQueue, ceAt, ceLocal, ceTimer, ceLost)
      BY <2>1, <2>2, <2>3 DEF Booked
    <2>5. CeTypeOK
      BY EventFacts, CeAssumption DEF CeInit, CeTypeOK
    <2> QED
      BY <2>3, <2>4, <2>5 DEF CeInit, EventsInv, FreeEventsFinished, EventsInitialized, HandOK
  <1>2. EventsInv /\ [CeNext]_eventsVars => EventsInv'
    <2> SUFFICES ASSUME EventsInv, [CeNext]_eventsVars PROVE EventsInv'
      OBVIOUS
    <2>1. CASE \E t \in CeTimed : TimeOut(t)
      BY <2>1, TimeOutKeeps
    <2>2. CASE UNCHANGED eventsVars
      BY <2>2 DEF eventsVars, cePool, ceThreads, EventsInv, CeTypeOK, Booked, FreeEventsFinished, EventsInitialized
    <2> QED
      BY <2>1, <2>2, ProcessorKeeps
      DEF CeNext, CheckServerSocketTimes, CheckUnusedSocketsTimes, CheckSocketsPoolTimes, CeTimed
  <1> QED
    BY <1>1, <1>2, PTL DEF CeSpec

(***************************************************************************)
(* Whatever fails in a timer or a processor, and wherever a processor is   *)
(* cancelled, no event is lost or given back twice, none is put among the  *)
(* free ones before its finish and none into the set before its init, for  *)
(* every number of processors and of events in a block.                    *)
(***************************************************************************)
THEOREM EventsAreWhole == CeSpec => []EventsWhole
  BY BookedIsKept, EventsInvariant, PTL

-----------------------------------------------------------------------------
(***************************************************************************)
(* The service: which parts are held at each step of onInit, what the list *)
(* of a branch that fails has to be for them, and which threads run at     *)
(* each step of onStart and cancel.                                        *)
(***************************************************************************)
LEMMA Ranks ==
    /\ "configuration" \in SvParts /\ SvMade["configuration"] = 2
    /\ "tracer" \in SvParts /\ SvMade["tracer"] = 3
    /\ "eventsSet" \in SvParts /\ SvMade["eventsSet"] = 4
    /\ "sessions" \in SvParts /\ SvMade["sessions"] = 5
    /\ "eachSession" \in SvParts /\ SvMade["eachSession"] = 6
    /\ "freeSessions" \in SvParts /\ SvMade["freeSessions"] = 7
    /\ "freeMutex" \in SvParts /\ SvMade["freeMutex"] = 8
    /\ "serverSocket" \in SvParts /\ SvMade["serverSocket"] = 9
    /\ "socketsPool" \in SvParts /\ SvMade["socketsPool"] = 10
    /\ "scheduler" \in SvParts /\ SvMade["scheduler"] = 11
    /\ "timesPool" \in SvParts /\ SvMade["timesPool"] = 12
    /\ "timesServer" \in SvParts /\ SvMade["timesServer"] = 13
    /\ "timesUnused" \in SvParts /\ SvMade["timesUnused"] = 14
    /\ "loadBalancer" \in SvParts /\ SvMade["loadBalancer"] = 15
    /\ "processors" \in SvParts /\ SvMade["processors"] = 16
    /\ "eachProcessor" \in SvParts /\ SvMade["eachProcessor"] = 17
    /\ "base" \in SvParts /\ SvMade["base"] = 18
    /\ "section" \in SvParts /\ SvMade["section"] = 19
  BY DEF SvParts, SvMade

LEMMA RanksNat == \A x \in SvParts : SvMade[x] \in Nat
  BY DEF SvParts, SvMade

\* A list finishes the parts of H, none twice and the last made first.
RangeOf(b) == {b[i] : i \in 1 .. Len(b)}
LastFirst(b) == \A i, j \in 1 .. Len(b) : i < j => SvMade[b[j]] < SvMade[b[i]]
Finishes(b, H, n) ==
    b \in Seq(SvParts) /\ RangeOf(b) = H /\ LastFirst(b) /\ \A x \in H : SvMade[x] <= n

LEMMA OneMore ==
    ASSUME NEW b, NEW H, NEW n \in Nat, Finishes(b, H, n), NEW x \in SvParts, NEW m \in Nat, n < m, SvMade[x] = m
    PROVE  Finishes(<<x>> \o b, H \cup {x}, m)
  <1> DEFINE c == <<x>> \o b
  <1>0. \A y \in SvParts : SvMade[y] \in Nat
    BY RanksNat
  <1>1. b \in Seq(SvParts) /\ Len(b) \in Nat /\ \A i \in 1 .. Len(b) : b[i] \in SvParts /\ b[i] \in H /\ SvMade[b[i]] <= n
    BY DEF Finishes, RangeOf
  <1>2. /\ c \in Seq(SvParts) /\ Len(c) = Len(b) + 1 /\ c[1] = x
        /\ \A i \in 2 .. Len(c) : c[i] = b[i - 1] /\ i - 1 \in 1 .. Len(b)
        /\ \A i \in 1 .. Len(b) : c[i + 1] = b[i] /\ i + 1 \in 1 .. Len(c)
    <2>1. <<x>> \in Seq(SvParts) /\ Len(<<x>>) = 1 /\ <<x>>[1] = x
      OBVIOUS
    <2>2. c \in Seq(SvParts) /\ Len(c) = Len(b) + 1
      BY <1>1, <2>1, ConcatProperties
    <2>3. \A i \in 1 .. Len(c) : c[i] = IF i <= 1 THEN <<x>>[i] ELSE b[i - 1]
      BY <1>1, <2>1, ConcatProperties
    <2> HIDE DEF c
    <2>4. c[1] = x
      BY <1>1, <2>1, <2>2, <2>3
    <2>5. \A i \in 2 .. Len(c) : c[i] = b[i - 1] /\ i - 1 \in 1 .. Len(b)
      BY <1>1, <2>2, <2>3
    <2>6. \A i \in 1 .. Len(b) : c[i + 1] = b[i] /\ i + 1 \in 1 .. Len(c)
      <3> SUFFICES ASSUME NEW i \in 1 .. Len(b) PROVE c[i + 1] = b[i] /\ i + 1 \in 1 .. Len(c)
        OBVIOUS
      <3>1. i + 1 \in 2 .. Len(c) /\ (i + 1) - 1 = i
        BY <1>1, <2>2
      <3> QED
        BY <2>2, <2>5, <3>1
    <2> QED
      BY <2>2, <2>4, <2>5, <2>6
  <1> HIDE DEF c
  <1>3. RangeOf(c) = H \cup {x}
    <2>1. \A y \in RangeOf(c) : y \in H \cup {x}
      <3>1. \A i \in 1 .. Len(c) : i = 1 \/ i \in 2 .. Len(c)
        BY <1>1, <1>2
      <3> QED
        BY <1>1, <1>2, <3>1 DEF RangeOf
    <2>2. x \in RangeOf(c)
      <3>1. 1 \in 1 .. Len(c)
        BY <1>1, <1>2
      <3> QED
        BY <1>2, <3>1 DEF RangeOf
    <2>3. \A y \in H : y \in RangeOf(c)
      <3>1. \A y \in H : \E i \in 1 .. Len(b) : y = b[i]
        BY DEF Finishes, RangeOf
      <3> QED
        BY <1>2, <3>1 DEF RangeOf
    <2> QED
      BY <2>1, <2>2, <2>3
  <1>4. LastFirst(c)
    <2> SUFFICES ASSUME NEW i \in 1 .. Len(c), NEW j \in 1 .. Len(c), i < j PROVE SvMade[c[j]] < SvMade[c[i]]
      BY DEF LastFirst
    <2>1. j \in 2 .. Len(c) /\ c[j] = b[j - 1] /\ j - 1 \in 1 .. Len(b)
      BY <1>1, <1>2
    <2>2. CASE i = 1
      <3>1. SvMade[b[j - 1]] <= n /\ SvMade[b[j - 1]] \in Nat /\ SvMade[x] \in Nat
        BY <1>0, <1>1, <2>1
      <3> QED
        BY <1>2, <2>1, <2>2, <3>1
    <2>3. CASE i # 1
      <3>1. i \in 2 .. Len(c) /\ c[i] = b[i - 1] /\ i - 1 \in 1 .. Len(b) /\ i - 1 < j - 1
        BY <1>1, <1>2, <2>1, <2>3
      <3> QED
        BY <2>1, <3>1 DEF Finishes, LastFirst
    <2> QED
      BY <2>2, <2>3
  <1>5. \A y \in H \cup {x} : SvMade[y] <= SvMade[x]
    <2>1. \A y \in H : SvMade[y] <= n /\ SvMade[y] \in Nat
      <3>1. \A y \in H : y \in SvParts /\ SvMade[y] <= n
        BY <1>1 DEF Finishes, RangeOf
      <3> QED
        BY <1>0, <3>1
    <2>2. SvMade[x] \in Nat
      BY <1>0
    <2> QED
      BY <2>1, <2>2
  <1> QED
    BY <1>2, <1>3, <1>4, <1>5 DEF Finishes, c

\* The first is finished, the others stay.
LEMMA OneLess ==
    ASSUME NEW b \in Seq(SvParts), b # <<>>, LastFirst(b)
    PROVE  /\ Head(b) \in RangeOf(b) /\ Tail(b) \in Seq(SvParts) /\ LastFirst(Tail(b))
           /\ RangeOf(Tail(b)) = RangeOf(b) \ {Head(b)}
  <1>1. /\ Len(b) \in Nat /\ Len(b) > 0 /\ Head(b) = b[1] /\ Tail(b) \in Seq(SvParts) /\ Len(Tail(b)) = Len(b) - 1
        /\ \A i \in 1 .. Len(Tail(b)) : Tail(b)[i] = b[i + 1] /\ i + 1 \in 1 .. Len(b)
    OBVIOUS
  <1>2. PICK t \in Seq(SvParts) : t = Tail(b)
    BY <1>1
  <1>3. \A i \in 2 .. Len(b) : i - 1 \in 1 .. Len(t) /\ t[i - 1] = b[i]
    <2> SUFFICES ASSUME NEW i \in 2 .. Len(b) PROVE i - 1 \in 1 .. Len(t) /\ t[i - 1] = b[i]
      OBVIOUS
    <2>1. i - 1 \in 1 .. Len(t) /\ (i - 1) + 1 = i
      BY <1>1, <1>2
    <2> QED
      BY <1>1, <1>2, <2>1
  <1>4. LastFirst(t)
    BY <1>1, <1>2 DEF LastFirst
  <1>5. \A i \in 2 .. Len(b) : b[i] # b[1]
    <2>1. ASSUME NEW i \in 2 .. Len(b) PROVE b[i] # b[1]
      <3>1. 1 \in 1 .. Len(b) /\ i \in 1 .. Len(b) /\ 1 < i /\ b[1] \in SvParts /\ b[i] \in SvParts
        BY <1>1
      <3>2. SvMade[b[i]] < SvMade[b[1]]
        BY <3>1 DEF LastFirst
      <3>3. SvMade[b[i]] \in Nat /\ SvMade[b[1]] \in Nat
        BY <3>1, RanksNat
      <3> QED
        BY <3>2, <3>3
    <2> QED
      BY <2>1
  <1>6. RangeOf(t) = RangeOf(b) \ {b[1]} /\ b[1] \in RangeOf(b)
    <2>1. 1 \in 1 .. Len(b) /\ \A i \in 1 .. Len(b) : i = 1 \/ i \in 2 .. Len(b)
      BY <1>1
    <2>2. \A i \in 1 .. Len(t) : t[i] = b[i + 1] /\ i + 1 \in 2 .. Len(b)
      BY <1>1, <1>2
    <2>3. \A y \in RangeOf(t) : y \in RangeOf(b) /\ y # b[1]
      BY <1>1, <1>5, <2>2 DEF RangeOf
    <2>4. \A y \in RangeOf(b) : y # b[1] => y \in RangeOf(t)
      BY <1>3, <2>1 DEF RangeOf
    <2> QED
      BY <2>1, <2>3, <2>4 DEF RangeOf
  <1> QED
    BY <1>1, <1>2, <1>4, <1>6

\* What the parts are at the steps of onInit.
HConfiguration == {"configuration"}
HTracer == HConfiguration \cup {"tracer"}
HEvents == HTracer \cup {"eventsSet"}
HArray == HEvents \cup {"sessions"}
HEach == HArray \cup {"eachSession"}
HSessions == HEach \cup {"freeSessions"}
HMutex == HSessions \cup {"freeMutex"}
HServer == HMutex \cup {"serverSocket"}
HPool == HServer \cup {"socketsPool"}
HScheduler == HPool \cup {"scheduler"}
HTimesPool == HScheduler \cup {"timesPool"}
HTimesServer == HTimesPool \cup {"timesServer"}
HTimesUnused == HTimesServer \cup {"timesUnused"}
HProxy == IF svProxy THEN HTimesUnused \cup {"loadBalancer"} ELSE HTimesUnused
HNoProcessor == HProxy \cup {"processors"}
HProcessors == IF svCount > 0 THEN HNoProcessor \cup {"eachProcessor"} ELSE HNoProcessor
HAll == HNoProcessor \cup {"eachProcessor"}
HBase == HProcessors \cup {"base"}
HSection == HBase \cup {"section"}

\* Each list is made for the parts of its step.
LEMMA ListsOfSessions ==
    /\ Finishes(SvBackConfiguration, HConfiguration, 2) /\ Finishes(SvBackTracer, HTracer, 3)
    /\ Finishes(SvBackEvents, HEvents, 4) /\ Finishes(SvBackSessions, HSessions, 7)
    /\ svCount \in Nat => Finishes(SvBackSession, IF svCount > 0 THEN HEach ELSE HArray, 6)
  <1> USE Ranks
  <1>1. Finishes(SvBackConfiguration, HConfiguration, 2)
    <2>1. SvBackConfiguration \in Seq(SvParts) /\ Len(SvBackConfiguration) = 1 /\ SvBackConfiguration[1] = "configuration"
      BY DEF SvBackConfiguration
    <2>2. RangeOf(SvBackConfiguration) = HConfiguration /\ LastFirst(SvBackConfiguration)
      BY <2>1 DEF RangeOf, HConfiguration, LastFirst
    <2> QED
      BY <2>1, <2>2 DEF Finishes, HConfiguration
  <1>2. Finishes(SvBackTracer, HTracer, 3)
    BY <1>1, OneMore DEF SvBackTracer, HTracer
  <1>3. Finishes(SvBackEvents, HEvents, 4)
    BY <1>2, OneMore DEF SvBackEvents, HEvents
  <1>4. Finishes(<<"sessions">> \o SvBackEvents, HArray, 5)
    BY <1>3, OneMore DEF HArray
  <1>5. Finishes(<<"eachSession">> \o (<<"sessions">> \o SvBackEvents), HEach, 6)
    BY <1>4, OneMore DEF HEach
  <1>6. Finishes(SvBackSessions, HSessions, 7)
    BY <1>5, OneMore DEF SvBackSessions, HSessions
  <1>7. ASSUME svCount \in Nat PROVE Finishes(SvBackSession, IF svCount > 0 THEN HEach ELSE HArray, 6)
    <2>1. CASE svCount > 0
      BY <1>5, <2>1 DEF SvBackSession, IfAny
    <2>2. CASE ~(svCount > 0)
      <3>1. SvBackSession = <<"sessions">> \o SvBackEvents
        BY <1>4, <2>2 DEF SvBackSession, IfAny, Finishes
      <3>2. \A x \in HArray : SvMade[x] <= 6
        <4>1. \A x \in HArray : x \in SvParts /\ SvMade[x] <= 5
          BY <1>4 DEF Finishes, HArray, HEvents, HTracer, HConfiguration
        <4> QED
          BY <4>1, RanksNat
      <3> QED
        BY <1>4, <2>2, <3>1, <3>2 DEF Finishes
    <2> QED
      BY <2>1, <2>2
  <1> QED
    BY <1>1, <1>2, <1>3, <1>6, <1>7

LEMMA ListsOfServer ==
    /\ Finishes(SvBackMutex, HMutex, 8) /\ Finishes(SvBackServer, HServer, 9) /\ Finishes(SvBackPool, HPool, 10)
    /\ Finishes(SvBackScheduler, HScheduler, 11) /\ Finishes(SvBackTimesPool, HTimesPool, 12)
    /\ Finishes(SvBackTimesServer, HTimesServer, 13) /\ Finishes(SvBackTimesUnused, HTimesUnused, 14)
  <1> USE Ranks, OneMore
  <1>1. Finishes(SvBackMutex, HMutex, 8)
    BY ListsOfSessions DEF SvBackMutex, HMutex
  <1>2. Finishes(SvBackServer, HServer, 9)
    BY <1>1 DEF SvBackServer, HServer
  <1>3. Finishes(SvBackPool, HPool, 10)
    BY <1>2 DEF SvBackPool, HPool
  <1>4. Finishes(SvBackScheduler, HScheduler, 11)
    BY <1>3 DEF SvBackScheduler, HScheduler
  <1>5. Finishes(SvBackTimesPool, HTimesPool, 12)
    BY <1>4 DEF SvBackTimesPool, HTimesPool
  <1>6. Finishes(SvBackTimesServer, HTimesServer, 13)
    BY <1>5 DEF SvBackTimesServer, HTimesServer
  <1>7. Finishes(SvBackTimesUnused, HTimesUnused, 14)
    BY <1>6 DEF SvBackTimesUnused, HTimesUnused
  <1> QED
    BY <1>1, <1>2, <1>3, <1>4, <1>5, <1>6, <1>7

LEMMA ListsOfProcessors ==
    ASSUME svCount \in Nat, svProxy \in BOOLEAN
    PROVE  /\ Finishes(SvBackProxy, HProxy, 15) /\ Finishes(SvBackProcessors, HProcessors, 17)
           /\ Finishes(SvBackBase, HBase, 18) /\ Finishes(SvBackSection, HSection, 19)
           /\ Finishes(SvFinishList, HAll, 17)
  <1> USE Ranks
  <1>0. ASSUME NEW b, NEW H, NEW n \in Nat, NEW m \in Nat, Finishes(b, H, n), n < m PROVE Finishes(b, H, m)
    <2>1. \A x \in H : x \in SvParts /\ SvMade[x] <= n
      <3>1. \A i \in 1 .. Len(b) : b[i] \in SvParts
        BY <1>0 DEF Finishes
      <3> QED
        BY <1>0, <3>1 DEF Finishes, RangeOf
    <2>2. \A x \in H : SvMade[x] \in Nat /\ SvMade[x] <= n
      BY <2>1, RanksNat
    <2>3. \A x \in H : SvMade[x] <= m
      BY <1>0, <2>2
    <2> QED
      BY <1>0, <2>3 DEF Finishes
  <1>1. Finishes(SvBackProxy, HProxy, 15)
    <2>1. CASE svProxy
      BY <2>1, ListsOfServer, OneMore DEF SvBackProxy, HProxy
    <2>2. CASE ~svProxy
      BY <1>0, <2>2, ListsOfServer DEF SvBackProxy, HProxy
    <2> QED
      BY <2>1, <2>2
  <1>2. Finishes(<<"processors">> \o SvBackProxy, HNoProcessor, 16)
    BY <1>1, OneMore DEF HNoProcessor
  <1>3. Finishes(SvFinishList, HAll, 17)
    BY <1>2, OneMore DEF SvFinishList, HAll
  <1>4. Finishes(SvBackProcessors, HProcessors, 17)
    <2>1. CASE svCount > 0
      BY <1>2, <2>1, OneMore DEF SvBackProcessors, HProcessors, IfAny
    <2>2. CASE ~(svCount > 0)
      <3>1. SvBackProcessors = <<"processors">> \o SvBackProxy
        BY <1>2, <2>2 DEF SvBackProcessors, IfAny, Finishes
      <3> QED
        BY <1>0, <1>2, <2>2, <3>1 DEF HProcessors
    <2> QED
      BY <2>1, <2>2
  <1>5. Finishes(SvBackBase, HBase, 18)
    BY <1>4, OneMore DEF SvBackBase, HBase
  <1>6. Finishes(SvBackSection, HSection, 19)
    BY <1>5, OneMore DEF SvBackSection, HSection
  <1> QED
    BY <1>1, <1>3, <1>4, <1>5, <1>6

\* The steps of the processors, of onStart and cancel, and of onInit.
ProcessorSteps == {"processor", "base", "section", "processorItems", "processorTimeout", "processorBuffers"}
Started == SvStarting \cup {"ready", "joined", "startFailed", "cancelLoadBalancer", "cancelProcessors"}
WithServer == {"serverImpl", "blocking", "receiveBuffer", "socketsPool"}
WithPool == {"destination", "period", "periodPool", "periodServer", "periodUnused", "scheduler"}
WithEvents == {"maxConnections", "timeoutToWait", "additionalMicros", "sessions"}
WithMutex == {"localIP", "localPort", "maxClients", "timeoutToAccept", "serverSocket"}
WithProxy == {"processorsNumber", "limitTTL", "limitAccept", "limitDelay", "limitEvent", "processors"}
WithItems == {"processorItems", "processorTimeout"}
Plain == {"configuration", "user", "tracerItems", "tracer", "eventsSet", "freeMutex", "timesPool", "timesServer",
          "timesUnused", "proxyEnabled", "loadBalancer"}
         \cup WithEvents \cup WithMutex \cup WithServer \cup WithPool \cup WithProxy
Building == Plain \cup {"hashMap", "session"} \cup ProcessorSteps
Steps == Building \cup Started \cup {"back", "refused", "finish", "exited"}

HeldIs(steps, H) == svPc \in steps => svHeld = {"hashMap"} \cup H

\* The parts that are held at each step.
HeldOK ==
    /\ svPc = "hashMap" => svHeld = {}
    /\ HeldIs({"configuration"}, {}) /\ HeldIs({"user", "tracerItems", "tracer"}, HConfiguration)
    /\ HeldIs({"eventsSet"}, HTracer) /\ HeldIs(WithEvents, HEvents)
    /\ HeldIs({"session"}, IF svCount > 0 THEN HSessions ELSE HArray)
    /\ HeldIs({"freeMutex"}, HSessions) /\ HeldIs(WithMutex, HMutex) /\ HeldIs(WithServer, HServer)
    /\ HeldIs(WithPool, HPool) /\ HeldIs({"timesPool"}, HScheduler) /\ HeldIs({"timesServer"}, HTimesPool)
    /\ HeldIs({"timesUnused"}, HTimesServer) /\ HeldIs({"proxyEnabled", "loadBalancer"}, HTimesUnused)
    /\ HeldIs(WithProxy, HProxy) /\ HeldIs({"processor", "base"}, HProcessors) /\ HeldIs({"section"}, HBase)
    /\ HeldIs(WithItems, HSection) /\ HeldIs({"processorBuffers"}, IF svProxy THEN HSection ELSE HBase)
    /\ HeldIs(Started, HAll)

\* What a branch, or cancel, has still to finish, and what then is left.
BackOK ==
    /\ svBack \in Seq(SvParts)
    /\ svPc \in {"back", "finish"} => LastFirst(svBack) /\ RangeOf(svBack) \subseteq svHeld
    /\ svPc = "back" => svHeld \ RangeOf(svBack) \subseteq SvLeft(svFailed)
    /\ svPc = "refused" => svHeld \subseteq SvLeft(svFailed)
    /\ svPc = "finish" => svHeld \ RangeOf(svBack) = {"hashMap"} /\ svTimes \subseteq RangeOf(svBack)
    /\ svPc = "exited" => svHeld = {"hashMap"} /\ svTimes = {}

\* The loops of the sessions and of the processors.
CountOK ==
    /\ svPc \in Steps /\ svProxy \in BOOLEAN /\ svHeld \subseteq SvParts
    /\ svPc \in {"loadBalancer", "section"} \cup WithItems => svProxy
    /\ svCount \in 0 .. SvSessions + SvProcessors
    /\ svPc = "session" => svCount <= SvSessions
    /\ svPc \in {"processor", "startProcessors"} => svCount <= SvProcessors
    /\ svPc \in ProcessorSteps \ {"processor"} => svCount < SvProcessors
    /\ svPc \in Plain \cup {"hashMap", "ready"} => svCount = 0

\* The threads that may run at a step, and the timers that are started.
MayRun(pc) ==
    IF pc \in SvStarting \cup {"joined"}
    THEN SvProcessorThreads \cup {SvOther("scheduler")} \cup (IF svProxy THEN {SvOther("loadBalancer")} ELSE {})
    ELSE IF pc = "cancelLoadBalancer"
    THEN SvProcessorThreads \cup (IF svProxy THEN {SvOther("loadBalancer")} ELSE {})
    ELSE IF pc = "cancelProcessors" THEN SvProcessorThreads
    ELSE {}

ThreadsAndTimes ==
    /\ svThreads \subseteq MayRun(svPc)
    /\ svTimes \subseteq {"timesPool", "timesServer", "timesUnused"}
    /\ svPc \in Building \cup {"back", "refused", "ready"} => svTimes = {}

ServiceInv == HeldOK /\ BackOK /\ CountOK /\ ThreadsAndTimes

\* A branch with the list for the parts that are held, but for those it leaves.
LEMMA FailsKeep ==
    ASSUME ServiceInv, NEW pc \in Building, NEW back, NEW H, NEW n, SvFails(pc, back), Finishes(back, H, n),
           H \subseteq svHeld, svHeld \ H \subseteq SvLeft(pc), UNCHANGED <<svThreads, svTimes>>
    PROVE  ServiceInv'
  <1>1. /\ svPc = pc /\ svPc' = "back" /\ svBack' = back /\ svFailed' = pc /\ svCount' = 0
        /\ UNCHANGED <<svHeld, svProxy, svThreads, svTimes>>
    BY DEF SvFails
  <1>2. svThreads = {} /\ svTimes = {}
    BY <1>1 DEF ServiceInv, ThreadsAndTimes, MayRun, Building, Plain, WithEvents, WithMutex, WithServer, WithPool,
                WithProxy, ProcessorSteps, SvStarting
  <1>3. HeldOK'
    BY <1>1 DEF HeldOK, HeldIs, WithEvents, WithMutex, WithServer, WithPool, WithProxy, WithItems, Started, SvStarting
  <1>4. BackOK'
    BY <1>1 DEF BackOK, Finishes
  <1>5. CountOK'
    BY <1>1, SvAssumption
    DEF ServiceInv, CountOK, Steps, Plain, ProcessorSteps, WithEvents, WithMutex, WithServer, WithPool, WithProxy,
        WithItems
  <1>6. ThreadsAndTimes'
    BY <1>1, <1>2 DEF ThreadsAndTimes
  <1> QED
    BY <1>3, <1>4, <1>5, <1>6 DEF ServiceInv

\* The branches that leave nothing but what init had made.
LEMMA FailsPlainly ==
    ASSUME ServiceInv, NEW pc \in Building \ {"hashMap"}, NEW back, NEW H, NEW n, SvFails(pc, back),
           Finishes(back, H, n), svHeld = {"hashMap"} \cup H, UNCHANGED <<svThreads, svTimes>>
    PROVE  ServiceInv'
  <1>1. svHeld \ H \subseteq SvLeft(pc) /\ H \subseteq svHeld
    BY DEF SvLeft
  <1> QED
    BY <1>1, FailsKeep

\* A step of onInit that goes on.
LEMMA StepKeeps ==
    ASSUME ServiceInv, NEW pc \in Building, svPc = pc, svPc' \in Building \cup {"ready"},
           UNCHANGED <<svThreads, svTimes, svBack>>, HeldOK', CountOK'
    PROVE  ServiceInv'
  <1>1. svThreads = {} /\ svTimes = {}
    BY DEF ServiceInv, ThreadsAndTimes, MayRun, Building, Plain, WithEvents, WithMutex, WithServer, WithPool,
           WithProxy, ProcessorSteps, SvStarting
  <1>2. ThreadsAndTimes'
    BY <1>1 DEF ThreadsAndTimes
  <1>3. svPc' \notin {"back", "finish", "refused", "exited"}
    BY DEF Building, Plain, WithEvents, WithMutex, WithServer, WithPool, WithProxy, ProcessorSteps
  <1>4. BackOK'
    BY <1>3 DEF ServiceInv, BackOK
  <1> QED
    BY <1>2, <1>4 DEF ServiceInv

\* The steps of onInit outside its loops, with the parts that they have.
Row(G, H) ==
    \/ G = {"configuration"} /\ H = {}
    \/ G = {"user", "tracerItems", "tracer"} /\ H = HConfiguration
    \/ G = {"eventsSet"} /\ H = HTracer
    \/ G = WithEvents /\ H = HEvents
    \/ G = {"freeMutex"} /\ H = HSessions
    \/ G = WithMutex /\ H = HMutex
    \/ G = WithServer /\ H = HServer
    \/ G = WithPool /\ H = HPool
    \/ G = {"timesPool"} /\ H = HScheduler
    \/ G = {"timesServer"} /\ H = HTimesPool
    \/ G = {"timesUnused"} /\ H = HTimesServer
    \/ G = {"proxyEnabled", "loadBalancer"} /\ H = HTimesUnused
    \/ G = WithProxy /\ H = HProxy

LEMMA RowHolds ==
    ASSUME ServiceInv, NEW G, NEW H, Row(G, H), svPc \in G
    PROVE  svHeld = {"hashMap"} \cup H /\ svPc \in Plain /\ svCount = 0
  <1>1. svHeld = {"hashMap"} \cup H
    BY DEF ServiceInv, HeldOK, HeldIs, Row
  <1>2. svPc \in Plain
    BY DEF Row, Plain
  <1> QED
    BY <1>1, <1>2 DEF ServiceInv, CountOK

LEMMA RowEnough ==
    ASSUME NEW G, NEW H, Row(G, H), svPc' \in G, svHeld' = {"hashMap"} \cup H, svProxy' = svProxy
    PROVE  HeldOK'
  <1>1. HProxy' = HProxy
    BY DEF HProxy, HTimesUnused, HTimesServer, HTimesPool, HScheduler, HPool, HServer, HMutex, HSessions, HEach,
           HArray, HEvents, HTracer, HConfiguration
  <1> USE DEF HeldOK, HeldIs, WithEvents, WithMutex, WithServer, WithPool, WithProxy, WithItems, Started, SvStarting
  <1>2. CASE \/ G = {"configuration"} /\ H = {}
             \/ G = {"user", "tracerItems", "tracer"} /\ H = HConfiguration
             \/ G = {"eventsSet"} /\ H = HTracer
    BY <1>2
  <1>3. CASE \/ G = WithEvents /\ H = HEvents
             \/ G = {"freeMutex"} /\ H = HSessions
             \/ G = WithMutex /\ H = HMutex
    BY <1>3
  <1>4. CASE \/ G = WithServer /\ H = HServer
             \/ G = WithPool /\ H = HPool
    BY <1>4
  <1>5. CASE \/ G = {"timesPool"} /\ H = HScheduler
             \/ G = {"timesServer"} /\ H = HTimesPool
             \/ G = {"timesUnused"} /\ H = HTimesServer
    BY <1>5
  <1>6. CASE G = {"proxyEnabled", "loadBalancer"} /\ H = HTimesUnused
    BY <1>6
  <1>7. CASE G = WithProxy /\ H = HProxy
    BY <1>1, <1>7
  <1> QED
    BY <1>2, <1>3, <1>4, <1>5, <1>6, <1>7 DEF Row

LEMMA ReadsKeep ==
    ASSUME ServiceInv, NEW G, NEW H, Row(G, H), NEW pc \in G, NEW next \in G, next # "loadBalancer",
           NEW back, NEW n, Finishes(back, H, n), SvReads(pc, next, back)
    PROVE  ServiceInv'
  <1>1. svPc = pc
    BY DEF SvReads, SvFails
  <1>2. svHeld = {"hashMap"} \cup H /\ pc \in Plain /\ svCount = 0
    BY <1>1, RowHolds
  <1>3. CASE SvFails(pc, back)
    BY <1>2, <1>3, FailsPlainly DEF SvReads, Building, Plain, WithEvents, WithMutex, WithServer, WithPool, WithProxy
  <1>4. CASE svPc' = next /\ UNCHANGED <<svKeeps, svCount, svProxy>>
    <2>1. HeldOK'
      BY <1>2, <1>4, RowEnough DEF svKeeps
    <2>2. next \in Plain
      BY DEF Row, Plain
    <2>3. CountOK'
      BY <1>2, <1>4, <2>2 DEF ServiceInv, CountOK, svKeeps, Steps, Building, Plain, ProcessorSteps, WithEvents,
                               WithMutex, WithServer, WithPool, WithProxy, WithItems
    <2> QED
      BY <1>1, <1>2, <1>4, <2>1, <2>2, <2>3, StepKeeps DEF SvReads, svKeeps, Building
  <1> QED
    BY <1>3, <1>4 DEF SvReads

LEMMA BuildsKeep ==
    ASSUME ServiceInv, NEW G, NEW H, Row(G, H), NEW pc \in G, pc \in SvParts, NEW F, NEW J, Row(F, J), J = H \cup {pc},
           NEW next \in F, next # "loadBalancer",
           NEW back, NEW n, Finishes(back, H, n), SvBuilds(pc, next, back)
    PROVE  ServiceInv'
  <1>1. svPc = pc
    BY DEF SvBuilds, SvFails
  <1>2. svHeld = {"hashMap"} \cup H /\ pc \in Plain /\ svCount = 0
    BY <1>1, RowHolds
  <1>3. CASE SvFails(pc, back)
    BY <1>2, <1>3, FailsPlainly DEF SvBuilds, Building, Plain, WithEvents, WithMutex, WithServer, WithPool, WithProxy
  <1>4. CASE svPc' = next /\ svHeld' = svHeld \cup {pc} /\ UNCHANGED <<svBack, svFailed, svCount, svProxy>>
    <2>1. HeldOK'
      <3>1. svHeld' = {"hashMap"} \cup J
        BY <1>2, <1>4
      <3> QED
        BY <1>4, <3>1, RowEnough
    <2>2. next \in Plain
      BY DEF Row, Plain
    <2>3. CountOK'
      BY <1>2, <1>4, <2>2 DEF ServiceInv, CountOK, Steps, Building, Plain, ProcessorSteps, WithEvents,
                               WithMutex, WithServer, WithPool, WithProxy, WithItems
    <2> QED
      BY <1>1, <1>2, <1>4, <2>1, <2>2, <2>3, StepKeeps DEF SvBuilds, Building
  <1> QED
    BY <1>3, <1>4 DEF SvBuilds

LEMMA Rows ==
    /\ Row({"configuration"}, {}) /\ Row({"user", "tracerItems", "tracer"}, HConfiguration)
    /\ Row({"eventsSet"}, HTracer) /\ Row(WithEvents, HEvents) /\ Row({"freeMutex"}, HSessions)
    /\ Row(WithMutex, HMutex) /\ Row(WithServer, HServer) /\ Row(WithPool, HPool)
    /\ Row({"timesPool"}, HScheduler) /\ Row({"timesServer"}, HTimesPool) /\ Row({"timesUnused"}, HTimesServer)
    /\ Row({"proxyEnabled", "loadBalancer"}, HTimesUnused) /\ Row(WithProxy, HProxy)
  <1>1. Row({"configuration"}, {}) /\ Row({"user", "tracerItems", "tracer"}, HConfiguration)
    BY DEF Row
  <1>2. Row({"eventsSet"}, HTracer) /\ Row(WithEvents, HEvents) /\ Row({"freeMutex"}, HSessions)
    BY DEF Row
  <1>3. Row(WithMutex, HMutex) /\ Row(WithServer, HServer) /\ Row(WithPool, HPool)
    BY DEF Row
  <1>4. Row({"timesPool"}, HScheduler) /\ Row({"timesServer"}, HTimesPool) /\ Row({"timesUnused"}, HTimesServer)
    BY DEF Row
  <1>5. Row({"proxyEnabled", "loadBalancer"}, HTimesUnused) /\ Row(WithProxy, HProxy)
    BY DEF Row
  <1> QED
    BY <1>1, <1>2, <1>3, <1>4, <1>5

\* The values that onInit reads.
LEMMA OnInitReads ==
    ASSUME ServiceInv,
           \/ SvUser \/ SvTracerItems \/ SvMaxConnections \/ SvTimeoutToWait
           \/ SvAdditionalMicros \/ SvLocalIP \/ SvLocalPort \/ SvMaxClients
           \/ SvTimeoutToAccept \/ SvServerImpl \/ SvBlocking \/ SvReceiveBuffer
           \/ SvDestination \/ SvPeriod \/ SvPeriodPool \/ SvPeriodServer
           \/ SvPeriodUnused \/ SvProcessorsNumber \/ SvLimitTTL \/ SvLimitAccept
           \/ SvLimitDelay \/ SvLimitEvent
    PROVE  ServiceInv'
  <1>0. svCount \in Nat /\ svProxy \in BOOLEAN
    BY SvAssumption DEF ServiceInv, CountOK
  <1> USE ReadsKeep
  <1>1. CASE SvUser \/ SvTracerItems
    <2>1. Row({"user", "tracerItems", "tracer"}, HConfiguration) /\ Finishes(SvBackConfiguration, HConfiguration, 2)
      BY ListsOfSessions, Rows
    <2>2. CASE SvUser
      BY <2>1, <2>2 DEF SvUser
    <2>3. CASE SvTracerItems
      BY <2>1, <2>3 DEF SvTracerItems
    <2> QED
      BY <1>1, <2>2, <2>3
  <1>2. CASE SvMaxConnections \/ SvTimeoutToWait \/ SvAdditionalMicros
    <2>1. Row(WithEvents, HEvents) /\ Finishes(SvBackEvents, HEvents, 4)
      BY ListsOfSessions, Rows
    <2>2. CASE SvMaxConnections
      BY <2>1, <2>2 DEF SvMaxConnections, WithEvents
    <2>3. CASE SvTimeoutToWait
      BY <2>1, <2>3 DEF SvTimeoutToWait, WithEvents
    <2>4. CASE SvAdditionalMicros
      BY <2>1, <2>4 DEF SvAdditionalMicros, WithEvents
    <2> QED
      BY <1>2, <2>2, <2>3, <2>4
  <1>3. CASE SvLocalIP \/ SvLocalPort \/ SvMaxClients \/ SvTimeoutToAccept
    <2>1. Row(WithMutex, HMutex) /\ Finishes(SvBackMutex, HMutex, 8)
      BY ListsOfServer, Rows
    <2>2. CASE SvLocalIP
      BY <2>1, <2>2 DEF SvLocalIP, WithMutex
    <2>3. CASE SvLocalPort
      BY <2>1, <2>3 DEF SvLocalPort, WithMutex
    <2>4. CASE SvMaxClients
      BY <2>1, <2>4 DEF SvMaxClients, WithMutex
    <2>5. CASE SvTimeoutToAccept
      BY <2>1, <2>5 DEF SvTimeoutToAccept, WithMutex
    <2> QED
      BY <1>3, <2>2, <2>3, <2>4, <2>5
  <1>4. CASE SvServerImpl \/ SvBlocking \/ SvReceiveBuffer
    <2>1. Row(WithServer, HServer) /\ Finishes(SvBackServer, HServer, 9)
      BY ListsOfServer, Rows
    <2>2. CASE SvServerImpl
      BY <2>1, <2>2 DEF SvServerImpl, WithServer
    <2>3. CASE SvBlocking
      BY <2>1, <2>3 DEF SvBlocking, WithServer
    <2>4. CASE SvReceiveBuffer
      BY <2>1, <2>4 DEF SvReceiveBuffer, WithServer
    <2> QED
      BY <1>4, <2>2, <2>3, <2>4
  <1>5. CASE SvDestination \/ SvPeriod \/ SvPeriodPool \/ SvPeriodServer \/ SvPeriodUnused
    <2>1. Row(WithPool, HPool) /\ Finishes(SvBackPool, HPool, 10)
      BY ListsOfServer, Rows
    <2>2. CASE SvDestination
      BY <2>1, <2>2 DEF SvDestination, WithPool
    <2>3. CASE SvPeriod
      BY <2>1, <2>3 DEF SvPeriod, WithPool
    <2>4. CASE SvPeriodPool
      BY <2>1, <2>4 DEF SvPeriodPool, WithPool
    <2>5. CASE SvPeriodServer
      BY <2>1, <2>5 DEF SvPeriodServer, WithPool
    <2>6. CASE SvPeriodUnused
      BY <2>1, <2>6 DEF SvPeriodUnused, WithPool
    <2> QED
      BY <1>5, <2>2, <2>3, <2>4, <2>5, <2>6
  <1>6. CASE SvProcessorsNumber \/ SvLimitTTL \/ SvLimitAccept \/ SvLimitDelay \/ SvLimitEvent
    <2>1. Row(WithProxy, HProxy) /\ Finishes(SvBackProxy, HProxy, 15)
      BY <1>0, ListsOfProcessors, Rows
    <2>2. CASE SvProcessorsNumber
      BY <2>1, <2>2 DEF SvProcessorsNumber, WithProxy
    <2>3. CASE SvLimitTTL
      BY <2>1, <2>3 DEF SvLimitTTL, WithProxy
    <2>4. CASE SvLimitAccept
      BY <2>1, <2>4 DEF SvLimitAccept, WithProxy
    <2>5. CASE SvLimitDelay
      BY <2>1, <2>5 DEF SvLimitDelay, WithProxy
    <2>6. CASE SvLimitEvent
      BY <2>1, <2>6 DEF SvLimitEvent, WithProxy
    <2> QED
      BY <1>6, <2>2, <2>3, <2>4, <2>5, <2>6
  <1> QED
    BY <1>1, <1>2, <1>3, <1>4, <1>5, <1>6

LEMMA EmptyList == Finishes(<<>>, {}, 1)
  BY DEF Finishes, RangeOf, LastFirst

\* The parts that onInit makes outside its loops.
LEMMA OnInitBuilds ==
    ASSUME ServiceInv,
           \/ SvConfiguration \/ SvTracer \/ SvEventsSet \/ SvFreeMutex \/ SvServerSocket \/ SvSocketsPool
           \/ SvScheduler \/ SvTimesPool \/ SvTimesServer \/ SvTimesUnused \/ SvLoadBalancer
    PROVE  ServiceInv'
  <1> USE BuildsKeep
  <1>1. CASE SvConfiguration
    <2>1. HConfiguration = {} \cup {"configuration"} /\ "configuration" \in SvParts
      BY Ranks DEF HConfiguration
    <2>2. Finishes(<<>>, {}, 1)
      BY EmptyList
    <2> QED
      BY <1>1, <2>1, <2>2, Rows DEF SvConfiguration
  <1>2. CASE SvTracer
    <2>1. HTracer = HConfiguration \cup {"tracer"} /\ "tracer" \in SvParts
      BY Ranks DEF HTracer
    <2>2. Finishes(SvBackConfiguration, HConfiguration, 2)
      BY ListsOfSessions
    <2> QED
      BY <1>2, <2>1, <2>2, Rows DEF SvTracer
  <1>3. CASE SvEventsSet
    <2>1. HEvents = HTracer \cup {"eventsSet"} /\ "eventsSet" \in SvParts
      BY Ranks DEF HEvents
    <2>2. Finishes(SvBackTracer, HTracer, 3)
      BY ListsOfSessions
    <2> QED
      BY <1>3, <2>1, <2>2, Rows DEF SvEventsSet, WithEvents
  <1>4. CASE SvFreeMutex
    <2>1. HMutex = HSessions \cup {"freeMutex"} /\ "freeMutex" \in SvParts
      BY Ranks DEF HMutex
    <2>2. Finishes(SvBackSessions, HSessions, 7)
      BY ListsOfSessions
    <2> QED
      BY <1>4, <2>1, <2>2, Rows DEF SvFreeMutex, WithMutex
  <1>5. CASE SvServerSocket
    <2>1. HServer = HMutex \cup {"serverSocket"} /\ "serverSocket" \in SvParts
      BY Ranks DEF HServer
    <2>2. Finishes(SvBackMutex, HMutex, 8)
      BY ListsOfServer
    <2> QED
      BY <1>5, <2>1, <2>2, Rows DEF SvServerSocket, WithMutex, WithServer
  <1>6. CASE SvSocketsPool
    <2>1. HPool = HServer \cup {"socketsPool"} /\ "socketsPool" \in SvParts
      BY Ranks DEF HPool
    <2>2. Finishes(SvBackServer, HServer, 9)
      BY ListsOfServer
    <2> QED
      BY <1>6, <2>1, <2>2, Rows DEF SvSocketsPool, WithServer, WithPool
  <1>7. CASE SvScheduler
    <2>1. HScheduler = HPool \cup {"scheduler"} /\ "scheduler" \in SvParts
      BY Ranks DEF HScheduler
    <2>2. Finishes(SvBackPool, HPool, 10)
      BY ListsOfServer
    <2> QED
      BY <1>7, <2>1, <2>2, Rows DEF SvScheduler, WithPool
  <1>8. CASE SvTimesPool
    <2>1. HTimesPool = HScheduler \cup {"timesPool"} /\ "timesPool" \in SvParts
      BY Ranks DEF HTimesPool
    <2>2. Finishes(SvBackScheduler, HScheduler, 11)
      BY ListsOfServer
    <2> QED
      BY <1>8, <2>1, <2>2, Rows DEF SvTimesPool
  <1>9. CASE SvTimesServer
    <2>1. HTimesServer = HTimesPool \cup {"timesServer"} /\ "timesServer" \in SvParts
      BY Ranks DEF HTimesServer
    <2>2. Finishes(SvBackTimesPool, HTimesPool, 12)
      BY ListsOfServer
    <2> QED
      BY <1>9, <2>1, <2>2, Rows DEF SvTimesServer
  <1>10. CASE SvTimesUnused
    <2>1. HTimesUnused = HTimesServer \cup {"timesUnused"} /\ "timesUnused" \in SvParts
      BY Ranks DEF HTimesUnused
    <2>2. Finishes(SvBackTimesServer, HTimesServer, 13)
      BY ListsOfServer
    <2> QED
      BY <1>10, <2>1, <2>2, Rows DEF SvTimesUnused
  <1>11. CASE SvLoadBalancer
    <2>0. svProxy
      BY <1>11 DEF SvLoadBalancer, SvBuilds, SvFails, ServiceInv, CountOK
    <2>1. HProxy = HTimesUnused \cup {"loadBalancer"} /\ "loadBalancer" \in SvParts
      BY <2>0, Ranks DEF HProxy
    <2>2. Finishes(SvBackTimesUnused, HTimesUnused, 14)
      BY ListsOfServer
    <2> QED
      BY <1>11, <2>1, <2>2, Rows DEF SvLoadBalancer, WithProxy
  <1> QED
    BY <1>1, <1>2, <1>3, <1>4, <1>5, <1>6, <1>7, <1>8, <1>9, <1>10, <1>11


\* The loops of onInit: the sessions, the proxy, the processors.
LEMMA OnInitSessions ==
    ASSUME ServiceInv, SvInitService \/ SvSessionsArray \/ SvSession
    PROVE  ServiceInv'
  <1> USE DEF HeldOK, HeldIs, WithEvents, WithMutex, WithServer, WithPool, WithProxy, WithItems, Started, SvStarting
  <1>0. /\ svCount \in Nat /\ SvSessions \in Nat \ {0} /\ SvProcessors \in Nat \ {0}
        /\ svCount \in 0 .. SvSessions + SvProcessors
    BY SvAssumption DEF ServiceInv, CountOK
  <1>1. CASE SvInitService
    <2>1. CASE SvFails("hashMap", <<>>)
      <3>1. svHeld = {}
        BY <2>1 DEF SvFails, ServiceInv
      <3>2. "hashMap" \in Building /\ UNCHANGED <<svThreads, svTimes>>
        BY <1>1 DEF Building, SvInitService, SvBuilds
      <3> QED
        BY <2>1, <3>1, <3>2, EmptyList, FailsKeep
    <2>2. CASE /\ svPc = "hashMap" /\ svPc' = "configuration" /\ svHeld' = svHeld \cup {"hashMap"}
               /\ UNCHANGED <<svBack, svFailed, svCount, svProxy>>
      <3>1. HeldOK'
        BY <2>2 DEF ServiceInv
      <3>2. CountOK'
        BY <2>2 DEF ServiceInv, CountOK, Steps, Building, Plain, ProcessorSteps, SvParts, SvMade
      <3> QED
        BY <1>1, <2>2, <3>1, <3>2, StepKeeps DEF SvInitService, SvBuilds, Building, Plain
    <2> QED
      BY <1>1, <2>1, <2>2 DEF SvInitService, SvBuilds
  <1>2. CASE SvSessionsArray
    <2>1. CASE SvFails("sessions", SvBackEvents)
      <3>1. svHeld = {"hashMap"} \cup HEvents /\ "sessions" \in Building \ {"hashMap"}
            /\ UNCHANGED <<svThreads, svTimes>>
        BY <1>2, <2>1 DEF SvFails, ServiceInv, Building, Plain, SvSessionsArray, SvBuilds
      <3> QED
        BY <2>1, <3>1, ListsOfSessions, FailsPlainly
    <2>2. CASE /\ svPc = "sessions" /\ svPc' = "session" /\ svHeld' = svHeld \cup {"sessions"}
               /\ UNCHANGED <<svBack, svFailed, svCount, svProxy>>
      <3>1. svHeld = {"hashMap"} \cup HEvents /\ svCount = 0
        BY <2>2 DEF ServiceInv, CountOK, Plain
      <3>2. HeldOK'
        BY <2>2, <3>1 DEF HArray, HEvents, HTracer, HConfiguration
      <3>3. CountOK'
        BY <1>0, <2>2, <3>1, Ranks DEF ServiceInv, CountOK, Steps, Building, Plain, ProcessorSteps
      <3> QED
        BY <1>2, <2>2, <3>2, <3>3, StepKeeps DEF SvSessionsArray, SvBuilds, Building, Plain
    <2> QED
      BY <1>2, <2>1, <2>2 DEF SvSessionsArray, SvBuilds
  <1>3. CASE SvSession
    <2>0. svPc = "session" /\ svHeld = {"hashMap"} \cup (IF svCount > 0 THEN HSessions ELSE HArray)
      BY <1>3 DEF SvSession, SvFails, ServiceInv
    <2>1. CASE SvFails("session", SvBackSession)
      <3> DEFINE H == IF svCount > 0 THEN HEach ELSE HArray
      <3>1. Finishes(SvBackSession, H, 6)
        BY <1>0, ListsOfSessions
      <3>2. H \subseteq svHeld /\ svHeld \ H \subseteq {"hashMap", "freeSessions"}
        BY <2>0 DEF HSessions
      <3>3. SvLeft("session") = {"hashMap", "freeSessions"}
        BY DEF SvLeft
      <3>4. "session" \in Building /\ UNCHANGED <<svThreads, svTimes>>
        BY <1>3 DEF Building, SvSession
      <3> HIDE DEF H
      <3> QED
        BY <2>1, <3>1, <3>2, <3>3, <3>4, FailsKeep
    <2>2. CASE /\ svCount < SvSessions /\ svCount' = svCount + 1
               /\ svHeld' = svHeld \cup {"eachSession", "freeSessions"}
               /\ UNCHANGED <<svPc, svBack, svFailed, svProxy>>
      <3>1. svHeld' = {"hashMap"} \cup HSessions /\ HSessions' = HSessions
        BY <2>0, <2>2 DEF HSessions, HEach, HArray, HEvents, HTracer, HConfiguration
      <3>2. svCount' > 0
        BY <1>0, <2>2
      <3>3. HeldOK'
        BY <2>0, <2>2, <3>1, <3>2
      <3>4. svHeld' \subseteq SvParts
        BY <2>2, Ranks DEF ServiceInv, CountOK
      <3>5. CountOK'
        BY <1>0, <2>0, <2>2, <3>4 DEF ServiceInv, CountOK, Plain, ProcessorSteps
      <3> QED
        BY <1>3, <2>0, <2>2, <3>3, <3>5, StepKeeps DEF SvSession, Building
    <2>3. CASE /\ svCount = SvSessions /\ svCount' = 0 /\ svPc' = "freeMutex" /\ UNCHANGED <<svKeeps, svProxy>>
      <3>1. svHeld' = {"hashMap"} \cup HSessions /\ HSessions' = HSessions
        BY <1>0, <2>0, <2>3 DEF svKeeps, HSessions, HEach, HArray, HEvents, HTracer, HConfiguration
      <3>2. HeldOK'
        BY <2>3, <3>1
      <3>3. CountOK'
        BY <1>0, <2>3 DEF ServiceInv, CountOK, svKeeps, Steps, Building, Plain, ProcessorSteps
      <3> QED
        BY <1>3, <2>0, <2>3, <3>2, <3>3, StepKeeps DEF SvSession, svKeeps, Building, Plain
    <2> QED
      BY <1>3, <2>1, <2>2, <2>3 DEF SvSession
  <1> QED
    BY <1>1, <1>2, <1>3

LEMMA OnInitProcessors ==
    ASSUME ServiceInv, SvProxyEnabled \/ SvProcessorsArray \/ SvProcessor
    PROVE  ServiceInv'
  <1> USE DEF HeldOK, HeldIs, WithEvents, WithMutex, WithServer, WithPool, WithProxy, WithItems, Started, SvStarting
  <1>0. /\ svCount \in Nat /\ svProxy \in BOOLEAN /\ SvSessions \in Nat \ {0} /\ SvProcessors \in Nat \ {0}
        /\ svCount \in 0 .. SvSessions + SvProcessors
    BY SvAssumption DEF ServiceInv, CountOK
  <1>1. CASE SvProxyEnabled
    <2>0. svPc = "proxyEnabled" /\ svHeld = {"hashMap"} \cup HTimesUnused /\ svCount = 0
      BY <1>1 DEF SvProxyEnabled, SvFails, ServiceInv, CountOK, Plain
    <2>1. CASE SvFails("proxyEnabled", SvBackTimesUnused)
      <3>1. "proxyEnabled" \in Building \ {"hashMap"} /\ UNCHANGED <<svThreads, svTimes>>
        BY <1>1 DEF Building, Plain, SvProxyEnabled
      <3> QED
        BY <2>0, <2>1, <3>1, ListsOfServer, FailsPlainly
    <2>2. CASE /\ svProxy' \in BOOLEAN /\ svPc' = IF svProxy' THEN "loadBalancer" ELSE "processorsNumber"
               /\ UNCHANGED <<svKeeps, svCount>>
      <3>1. HTimesUnused' = HTimesUnused /\ (~svProxy' => HProxy' = HTimesUnused)
        BY DEF HProxy, HTimesUnused, HTimesServer, HTimesPool, HScheduler, HPool, HServer, HMutex, HSessions, HEach,
               HArray, HEvents, HTracer, HConfiguration
      <3>2. HeldOK'
        BY <2>0, <2>2, <3>1 DEF svKeeps
      <3>3. CountOK'
        BY <1>0, <2>0, <2>2 DEF ServiceInv, CountOK, svKeeps, Steps, Building, Plain, ProcessorSteps
      <3>4. svPc' \in Building
        BY <2>2 DEF Building, Plain
      <3> QED
        BY <1>1, <2>0, <2>2, <3>2, <3>3, <3>4, StepKeeps DEF SvProxyEnabled, svKeeps, Building, Plain
    <2> QED
      BY <1>1, <2>1, <2>2 DEF SvProxyEnabled
  <1>2. CASE SvProcessorsArray
    <2>0. svPc = "processors" /\ svHeld = {"hashMap"} \cup HProxy /\ svCount = 0
      BY <1>2 DEF SvProcessorsArray, SvBuilds, SvFails, ServiceInv, CountOK, Plain
    <2>1. CASE SvFails("processors", SvBackProxy)
      <3>1. "processors" \in Building \ {"hashMap"} /\ UNCHANGED <<svThreads, svTimes>>
        BY <1>2 DEF Building, Plain, SvProcessorsArray, SvBuilds
      <3> QED
        BY <1>0, <2>0, <2>1, <3>1, ListsOfProcessors, FailsPlainly
    <2>2. CASE svPc' = "processor" /\ svHeld' = svHeld \cup {"processors"} /\ UNCHANGED <<svBack, svCount, svProxy>>
      <3>1. HProcessors' = HProxy \cup {"processors"}
        BY <2>0, <2>2 DEF HProcessors, HNoProcessor, HProxy, HTimesUnused, HTimesServer, HTimesPool, HScheduler,
                          HPool, HServer, HMutex, HSessions, HEach, HArray, HEvents, HTracer, HConfiguration
      <3>2. HeldOK'
        BY <2>0, <2>2, <3>1
      <3>3. CountOK'
        BY <1>0, <2>0, <2>2, Ranks DEF ServiceInv, CountOK, Steps, Building, Plain, ProcessorSteps
      <3> QED
        BY <1>2, <2>0, <2>2, <3>2, <3>3, StepKeeps DEF SvProcessorsArray, SvBuilds, Building, Plain, ProcessorSteps
    <2> QED
      BY <1>2, <2>1, <2>2 DEF SvProcessorsArray, SvBuilds
  <1>3. CASE SvProcessor
    <2>0. /\ svPc = "processor" /\ svHeld = {"hashMap"} \cup HProcessors /\ svCount <= SvProcessors
          /\ UNCHANGED <<svHeld, svBack, svFailed, svProxy, svThreads, svTimes>>
      BY <1>3 DEF SvProcessor, svKeeps, ServiceInv, CountOK
    <2>1. CASE svCount < SvProcessors
      <3>1. svPc' = "base" /\ svCount' = svCount
        BY <1>3, <2>1 DEF SvProcessor
      <3>2. HProcessors' = HProcessors
        BY <2>0, <3>1 DEF HProcessors, HNoProcessor, HProxy, HTimesUnused, HTimesServer, HTimesPool, HScheduler,
                          HPool, HServer, HMutex, HSessions, HEach, HArray, HEvents, HTracer, HConfiguration
      <3>3. HeldOK'
        BY <2>0, <3>1, <3>2
      <3>4. CountOK'
        BY <1>0, <2>0, <2>1, <3>1 DEF ServiceInv, CountOK, Steps, Building, Plain, ProcessorSteps
      <3> QED
        BY <2>0, <3>1, <3>3, <3>4, StepKeeps DEF Building, ProcessorSteps
    <2>2. CASE ~(svCount < SvProcessors)
      <3>1. svPc' = "ready" /\ svCount' = 0 /\ svCount > 0
        BY <1>0, <1>3, <2>0, <2>2 DEF SvProcessor
      <3>2. HAll' = HProcessors
        BY <2>0, <3>1 DEF HAll, HProcessors, HNoProcessor, HProxy, HTimesUnused, HTimesServer, HTimesPool,
                          HScheduler, HPool, HServer, HMutex, HSessions, HEach, HArray, HEvents, HTracer,
                          HConfiguration
      <3>3. HeldOK'
        BY <2>0, <3>1, <3>2
      <3>4. CountOK'
        BY <1>0, <2>0, <3>1 DEF ServiceInv, CountOK, Steps, Building, Plain, ProcessorSteps
      <3> QED
        BY <2>0, <3>1, <3>3, <3>4, StepKeeps DEF Building, ProcessorSteps
    <2> QED
      BY <2>1, <2>2
  <1> QED
    BY <1>1, <1>2, <1>3

\* CMProcessor::init, once for each processor.
LEMMA OnInitProcessor ==
    ASSUME ServiceInv,
           \/ SvProcessorBase \/ SvProcessorSection \/ SvProcessorItems
           \/ SvProcessorTimeout \/ SvProcessorBuffers
    PROVE  ServiceInv'
  <1> USE DEF HeldOK, HeldIs, WithEvents, WithMutex, WithServer, WithPool, WithProxy, WithItems, Started, SvStarting
  <1>0. /\ svCount \in Nat /\ svProxy \in BOOLEAN /\ SvSessions \in Nat \ {0} /\ SvProcessors \in Nat \ {0}
        /\ svCount \in 0 .. SvSessions + SvProcessors
        /\ Finishes(SvBackProcessors, HProcessors, 17) /\ Finishes(SvBackBase, HBase, 18)
        /\ Finishes(SvBackSection, HSection, 19)
    BY SvAssumption, ListsOfProcessors DEF ServiceInv, CountOK
  <1>1. UNCHANGED <<svThreads, svTimes>> /\ svPc \in ProcessorSteps \ {"processor"} /\ svCount < SvProcessors
    BY DEF SvProcessorBase, SvProcessorSection, SvProcessorItems, SvProcessorTimeout, SvProcessorBuffers, SvBuilds,
           SvReads, SvFails, ProcessorSteps, ServiceInv, CountOK
  <1>2. ProcessorSteps \subseteq Building /\ "hashMap" \notin ProcessorSteps
    BY DEF Building, ProcessorSteps
  <1>3. ASSUME UNCHANGED <<svProxy, svCount>>
        PROVE  HProcessors' = HProcessors /\ HBase' = HBase /\ HSection' = HSection
    BY <1>3
    DEF HSection, HBase, HProcessors, HNoProcessor, HProxy, HTimesUnused, HTimesServer, HTimesPool, HScheduler,
        HPool, HServer, HMutex, HSessions, HEach, HArray, HEvents, HTracer, HConfiguration
  <1>4. ASSUME svPc' \in ProcessorSteps, UNCHANGED <<svProxy, svCount>>,
               svHeld' \in {svHeld, svHeld \cup {"base"}, svHeld \cup {"section"}},
               svPc' \in {"section"} \cup WithItems => svProxy
        PROVE  CountOK'
    <2>1. svHeld' \subseteq SvParts
      BY <1>4, Ranks DEF ServiceInv, CountOK
    <2> QED
      BY <1>0, <1>1, <1>4, <2>1 DEF ServiceInv, CountOK, Steps, Building, Plain, ProcessorSteps
  <1>5. CASE SvProcessorBase
    <2>0. svPc = "base" /\ svHeld = {"hashMap"} \cup HProcessors
      BY <1>5 DEF SvProcessorBase, SvBuilds, SvFails, ServiceInv
    <2>1. CASE SvFails("base", SvBackProcessors)
      BY <1>0, <1>1, <1>2, <2>0, <2>1, FailsPlainly DEF ProcessorSteps
    <2>2. CASE /\ svPc' = (IF svProxy THEN "section" ELSE "processorBuffers") /\ svHeld' = svHeld \cup {"base"}
               /\ UNCHANGED <<svBack, svCount, svProxy>>
      <3>1. HeldOK'
        BY <1>0, <1>3, <2>0, <2>2 DEF HBase
      <3>2. svPc' \in ProcessorSteps /\ (svPc' \in {"section"} \cup WithItems => svProxy)
        BY <2>2 DEF ProcessorSteps
      <3> QED
        BY <1>1, <1>2, <1>4, <2>2, <3>1, <3>2, StepKeeps
    <2> QED
      BY <1>5, <2>1, <2>2 DEF SvProcessorBase, SvBuilds
  <1>6. CASE SvProcessorSection
    <2>0. svPc = "section" /\ svHeld = {"hashMap"} \cup HBase /\ svProxy
      BY <1>6 DEF SvProcessorSection, SvBuilds, SvFails, ServiceInv, CountOK
    <2>1. CASE SvFails("section", SvBackBase)
      BY <1>0, <1>1, <1>2, <2>0, <2>1, FailsPlainly DEF ProcessorSteps
    <2>2. CASE svPc' = "processorItems" /\ svHeld' = svHeld \cup {"section"} /\ UNCHANGED <<svBack, svCount, svProxy>>
      <3>1. HeldOK'
        BY <1>0, <1>3, <2>0, <2>2 DEF HSection
      <3>2. svPc' \in ProcessorSteps
        BY <2>2 DEF ProcessorSteps
      <3> QED
        BY <1>1, <1>2, <1>4, <2>0, <2>2, <3>1, <3>2, StepKeeps
    <2> QED
      BY <1>6, <2>1, <2>2 DEF SvProcessorSection, SvBuilds
  <1>7. CASE SvProcessorItems \/ SvProcessorTimeout
    <2>0. svPc \in WithItems /\ svHeld = {"hashMap"} \cup HSection /\ svProxy
      BY <1>7 DEF SvProcessorItems, SvProcessorTimeout, SvReads, SvFails, ServiceInv, CountOK
    <2>1. CASE SvFails("processorItems", SvBackSection)
      BY <1>0, <1>1, <1>2, <2>0, <2>1, FailsPlainly DEF ProcessorSteps
    <2>2. CASE SvFails("processorTimeout", SvBackProcessors)
      <3>1. SvLeft("processorTimeout") = {"hashMap", "base", "section"}
        BY DEF SvLeft
      <3>2. HProcessors \subseteq svHeld /\ svHeld \ HProcessors \subseteq SvLeft("processorTimeout")
        BY <2>0, <3>1 DEF HSection, HBase
      <3> QED
        BY <1>0, <1>1, <1>2, <2>2, <3>2, FailsKeep DEF ProcessorSteps
    <2>3. CASE svPc' \in {"processorTimeout", "processorBuffers"} /\ UNCHANGED <<svKeeps, svCount, svProxy>>
      <3>1. HeldOK'
        BY <1>0, <1>3, <2>0, <2>3 DEF svKeeps
      <3>2. svPc' \in ProcessorSteps /\ UNCHANGED <<svHeld, svBack, svCount, svProxy>>
        BY <2>3 DEF ProcessorSteps, svKeeps
      <3> QED
        BY <1>1, <1>2, <1>4, <2>0, <3>1, <3>2, StepKeeps
    <2> QED
      BY <1>7, <2>1, <2>2, <2>3 DEF SvProcessorItems, SvProcessorTimeout, SvReads
  <1>8. CASE SvProcessorBuffers
    <2>0. svPc = "processorBuffers" /\ svHeld = {"hashMap"} \cup (IF svProxy THEN HSection ELSE HBase)
      BY <1>8 DEF SvProcessorBuffers, SvFails, ServiceInv
    <2>1. CASE SvFails("processorBuffers", IF svProxy THEN SvBackSection ELSE SvBackBase)
      <3>1. CASE svProxy
        BY <1>0, <1>1, <1>2, <2>0, <2>1, <3>1, FailsPlainly DEF ProcessorSteps
      <3>2. CASE ~svProxy
        BY <1>0, <1>1, <1>2, <2>0, <2>1, <3>2, FailsPlainly DEF ProcessorSteps
      <3> QED
        BY <3>1, <3>2
    <2>2. CASE /\ svPc' = "processor" /\ svCount' = svCount + 1
               /\ svHeld' = (svHeld \ {"base", "section"}) \cup {"eachProcessor"}
               /\ UNCHANGED <<svBack, svFailed, svProxy>>
      <3>1. svCount' > 0
        BY <1>0, <2>2
      <3>2. HNoProcessor' = HNoProcessor /\ HNoProcessor \cap {"base", "section"} = {}
        BY <2>2 DEF HNoProcessor, HProxy, HTimesUnused, HTimesServer, HTimesPool, HScheduler, HPool, HServer,
                    HMutex, HSessions, HEach, HArray, HEvents, HTracer, HConfiguration
      <3>3. svHeld' = {"hashMap"} \cup HNoProcessor \cup {"eachProcessor"}
        BY <2>0, <2>2, <3>2 DEF HSection, HBase, HProcessors
      <3>4. svHeld' = {"hashMap"} \cup HProcessors'
        BY <3>1, <3>2, <3>3 DEF HProcessors
      <3>5. HeldOK'
        BY <2>2, <3>4
      <3>6. svHeld' \subseteq SvParts
        BY <2>2, Ranks DEF ServiceInv, CountOK
      <3>7. CountOK'
        BY <1>0, <1>1, <2>2, <3>6 DEF ServiceInv, CountOK, Steps, Building, Plain, ProcessorSteps
      <3> QED
        BY <1>1, <1>2, <2>2, <3>5, <3>7, StepKeeps DEF ProcessorSteps
    <2> QED
      BY <1>8, <2>1, <2>2 DEF SvProcessorBuffers
  <1> QED
    BY <1>5, <1>6, <1>7, <1>8

\* onStart: the parts stay, a thread more may run, or none after a failure.
LEMMA OnStartKeeps ==
    ASSUME ServiceInv, SvOnStart \/ SvJoined
    PROVE  ServiceInv'
  <1>1. UNCHANGED <<svHeld, svBack, svFailed, svProxy>> /\ svPc \in Started /\ svPc' \in Started \ {"ready"} /\ CountOK'
    BY SvAssumption
    DEF SvOnStart, SvBeginStart, SvStartProcessors, SvStartLoadBalancer, SvStartScheduler, SvStartTimesPool,
        SvStartTimesServer, SvStartTimesUnused, SvStartMyTimes, SvStartTimes, SvJoined, ServiceInv, CountOK, svKeeps,
        Steps, Building, Plain, WithEvents, WithMutex, WithServer, WithPool, WithProxy, WithItems, ProcessorSteps,
        Started, SvStarting
  <1>2. HAll' = HAll
    BY <1>1 DEF HAll, HNoProcessor, HProxy, HTimesUnused, HTimesServer, HTimesPool, HScheduler, HPool, HServer,
                HMutex, HSessions, HEach, HArray, HEvents, HTracer, HConfiguration
  <1>3. HeldOK' /\ BackOK'
    BY <1>1, <1>2 DEF ServiceInv, HeldOK, HeldIs, BackOK, WithEvents, WithMutex, WithServer, WithPool, WithProxy,
                      WithItems, Started, SvStarting
  <1>4. /\ svThreads \subseteq SvProcessorThreads \cup {SvOther("scheduler")}
                               \cup (IF svProxy THEN {SvOther("loadBalancer")} ELSE {})
        /\ svTimes \subseteq {"timesPool", "timesServer", "timesUnused"}
    BY <1>1 DEF ServiceInv, ThreadsAndTimes, MayRun
  <1>5. svTimes' \subseteq {"timesPool", "timesServer", "timesUnused"}
    BY <1>4
    DEF SvOnStart, SvBeginStart, SvStartProcessors, SvStartLoadBalancer, SvStartScheduler, SvStartTimesPool,
        SvStartTimesServer, SvStartTimesUnused, SvStartMyTimes, SvStartTimes, SvJoined
  <1>6. (svPc' = "startFailed" /\ svThreads' = {}) \/ svPc' \in SvStarting \cup {"joined"}
    BY DEF SvOnStart, SvBeginStart, SvStartProcessors, SvStartLoadBalancer, SvStartScheduler, SvStartTimesPool,
           SvStartTimesServer, SvStartTimesUnused, SvStartMyTimes, SvStartTimes, SvJoined, SvStarting
  <1>7. svThreads' \subseteq SvProcessorThreads \cup {SvOther("scheduler")}
                             \cup (IF svProxy THEN {SvOther("loadBalancer")} ELSE {})
    <2>1. CASE SvStartProcessors
      <3>1. svCount \in Nat /\ (svCount < SvProcessors => SvProcessorName(svCount + 1) \in SvProcessorThreads)
        BY SvAssumption DEF ServiceInv, CountOK, SvProcessorThreads
      <3> QED
        BY <1>4, <2>1, <3>1 DEF SvStartProcessors
    <2>2. CASE SvStartLoadBalancer
      BY <1>4, <2>2 DEF SvStartLoadBalancer
    <2>3. CASE SvStartScheduler
      BY <1>4, <2>3 DEF SvStartScheduler
    <2>4. CASE ~SvStartProcessors /\ ~SvStartLoadBalancer /\ ~SvStartScheduler
      <3>1. svThreads' \subseteq svThreads
        BY <2>4 DEF SvOnStart, SvBeginStart, SvStartTimesPool, SvStartTimesServer, SvStartTimesUnused,
                    SvStartMyTimes, SvStartTimes, SvJoined
      <3> QED
        BY <1>4, <3>1
    <2> QED
      BY <2>1, <2>2, <2>3, <2>4
  <1>8. svThreads' \subseteq MayRun(svPc)'
    BY <1>1, <1>6, <1>7 DEF MayRun
  <1>9. ThreadsAndTimes'
    BY <1>1, <1>5, <1>8 DEF ThreadsAndTimes, Started, SvStarting, Building, Plain, WithEvents, WithMutex, WithServer,
                            WithPool, WithProxy, ProcessorSteps
  <1> QED
    BY <1>1, <1>3, <1>9 DEF ServiceInv

\* cancel: the threads end one after the other, then the parts.
LEMMA CancelKeeps ==
    ASSUME ServiceInv, SvCancelScheduler \/ SvCancelLoadBalancer \/ SvCancelProcessors
    PROVE  ServiceInv'
  <1>1. /\ UNCHANGED <<svHeld, svFailed, svProxy, svTimes>> /\ svPc \in Started /\ CountOK'
        /\ \/ svPc \in SvStarting /\ svPc' = "cancelLoadBalancer" /\ UNCHANGED svBack
           \/ svPc = "cancelLoadBalancer" /\ svPc' = "cancelProcessors" /\ UNCHANGED svBack
           \/ svPc = "cancelProcessors" /\ svPc' = "finish" /\ svBack' = SvFinishList
    BY SvAssumption
    DEF SvCancelScheduler, SvCancelLoadBalancer, SvCancelProcessors, ServiceInv, CountOK, svKeeps, Steps, Building,
        Plain, WithEvents, WithMutex, WithServer, WithPool, WithProxy, WithItems, ProcessorSteps, Started, SvStarting
  <1>2. HAll' = HAll
    BY <1>1 DEF HAll, HNoProcessor, HProxy, HTimesUnused, HTimesServer, HTimesPool, HScheduler, HPool, HServer,
                HMutex, HSessions, HEach, HArray, HEvents, HTracer, HConfiguration
  <1>3. HeldOK'
    BY <1>1, <1>2 DEF ServiceInv, HeldOK, HeldIs, WithEvents, WithMutex, WithServer, WithPool, WithProxy, WithItems,
                      Started, SvStarting
  <1>4. svTimes \subseteq {"timesPool", "timesServer", "timesUnused"} /\ svHeld = {"hashMap"} \cup HAll
    BY <1>1 DEF ServiceInv, ThreadsAndTimes, HeldOK, HeldIs
  <1>5. {"timesPool", "timesServer", "timesUnused"} \subseteq HAll /\ "hashMap" \notin HAll
    BY DEF HAll, HNoProcessor, HProxy, HTimesUnused, HTimesServer, HTimesPool, HScheduler, HPool, HServer, HMutex,
           HSessions, HEach, HArray, HEvents, HTracer, HConfiguration
  <1>6. BackOK'
    <2>1. CASE svPc' = "finish"
      <3>1. svCount \in Nat /\ svProxy \in BOOLEAN
        BY SvAssumption DEF ServiceInv, CountOK
      <3>2. Finishes(SvFinishList, HAll, 17)
        BY <3>1, ListsOfProcessors
      <3>3. svBack' = SvFinishList
        BY <1>1, <2>1
      <3>4. svBack' \in Seq(SvParts) /\ LastFirst(svBack') /\ RangeOf(svBack') = HAll
        BY <3>2, <3>3 DEF Finishes
      <3>5. svHeld' \ RangeOf(svBack') = {"hashMap"} /\ svTimes' \subseteq RangeOf(svBack') /\ RangeOf(svBack') \subseteq svHeld'
        BY <1>1, <1>4, <1>5, <3>4
      <3> QED
        BY <2>1, <3>4, <3>5 DEF BackOK
    <2>2. CASE svPc' # "finish"
      BY <1>1, <2>2 DEF ServiceInv, BackOK
    <2> QED
      BY <2>1, <2>2
  <1>7. svThreads' \subseteq MayRun(svPc)'
    <2>1. CASE SvCancelScheduler
      BY <1>1, <2>1 DEF SvCancelScheduler, ServiceInv, ThreadsAndTimes, MayRun, SvStarting
    <2>2. CASE SvCancelLoadBalancer
      BY <1>1, <2>2 DEF SvCancelLoadBalancer, ServiceInv, ThreadsAndTimes, MayRun, SvStarting
    <2>3. CASE SvCancelProcessors
      BY <1>1, <2>3 DEF SvCancelProcessors, ServiceInv, ThreadsAndTimes, MayRun, SvStarting
    <2> QED
      BY <2>1, <2>2, <2>3
  <1>8. ThreadsAndTimes'
    BY <1>1, <1>4, <1>7 DEF ThreadsAndTimes, Building, Plain, WithEvents, WithMutex, WithServer, WithPool, WithProxy,
                            ProcessorSteps
  <1> QED
    BY <1>1, <1>3, <1>6, <1>8 DEF ServiceInv

\* A branch, or cancel, finishes the next part of its list.
LEMMA GivesBackKeeps ==
    ASSUME ServiceInv, SvGivesBack
    PROVE  ServiceInv'
  <1>1. /\ svPc \in {"back", "finish"} /\ UNCHANGED <<svFailed, svCount, svProxy, svThreads>>
        /\ svBack \in Seq(SvParts) /\ LastFirst(svBack) /\ RangeOf(svBack) \subseteq svHeld
        /\ svThreads = {}
    BY DEF SvGivesBack, ServiceInv, BackOK, ThreadsAndTimes, MayRun, SvStarting
  <1>2. svPc' \in {"back", "finish", "refused", "exited"} /\ svHeld' \subseteq svHeld /\ svTimes' \subseteq svTimes
    BY <1>1 DEF SvGivesBack
  <1>3. HeldOK'
    BY <1>2 DEF HeldOK, HeldIs, WithEvents, WithMutex, WithServer, WithPool, WithProxy, WithItems, Started, SvStarting
  <1>4. CountOK'
    BY <1>1, <1>2, SvAssumption
    DEF ServiceInv, CountOK, Steps, Plain, ProcessorSteps, WithEvents, WithMutex, WithServer, WithPool, WithProxy,
        WithItems
  <1>5. ThreadsAndTimes'
    BY <1>1, <1>2
    DEF SvGivesBack, ServiceInv, ThreadsAndTimes, Building, Plain, WithEvents, WithMutex, WithServer, WithPool,
        WithProxy, ProcessorSteps
  <1>6. BackOK'
    <2>1. CASE svBack # <<>>
      <3>1. /\ svHeld' = svHeld \ {Head(svBack)} /\ svTimes' = svTimes \ {Head(svBack)} /\ svBack' = Tail(svBack)
            /\ svPc' = svPc
        BY <2>1 DEF SvGivesBack
      <3>2. /\ Head(svBack) \in RangeOf(svBack) /\ Tail(svBack) \in Seq(SvParts) /\ LastFirst(Tail(svBack))
            /\ RangeOf(Tail(svBack)) = RangeOf(svBack) \ {Head(svBack)}
        BY <1>1, <2>1, OneLess
      <3>3. svHeld' \ RangeOf(svBack') = svHeld \ RangeOf(svBack) /\ RangeOf(svBack') \subseteq svHeld'
        BY <1>1, <3>1, <3>2
      <3>4. svPc = "finish" => svTimes' \subseteq RangeOf(svBack')
        BY <3>1, <3>2 DEF ServiceInv, BackOK
      <3> QED
        BY <1>1, <3>1, <3>2, <3>3, <3>4 DEF ServiceInv, BackOK
    <2>2. CASE svBack = <<>>
      <3>1. svPc' = (IF svPc = "back" THEN "refused" ELSE "exited") /\ UNCHANGED <<svHeld, svBack, svTimes>>
        BY <2>2 DEF SvGivesBack
      <3>2. RangeOf(svBack) = {}
        BY <2>2 DEF RangeOf
      <3> QED
        BY <1>1, <3>1, <3>2 DEF ServiceInv, BackOK
    <2> QED
      BY <2>1, <2>2
  <1> QED
    BY <1>3, <1>4, <1>5, <1>6 DEF ServiceInv

\* At every step of onInit, onStart and cancel it is known which parts are held
\* and what is still to finish: for every number of sessions and processors,
\* wherever a step fails and whenever the signal comes.
LEMMA ServiceInvariant == SvSpec => []ServiceInv
  <1>1. SvInit => ServiceInv
    <2> SUFFICES ASSUME SvInit PROVE ServiceInv
      OBVIOUS
    <2>1. HeldOK
      BY DEF SvInit, HeldOK, HeldIs, WithEvents, WithMutex, WithServer, WithPool, WithProxy, WithItems, Started,
             SvStarting
    <2>2. BackOK /\ ThreadsAndTimes
      BY DEF SvInit, BackOK, ThreadsAndTimes, MayRun
    <2>3. CountOK
      <3>1. svPc = "hashMap" /\ svHeld \subseteq SvParts /\ svProxy \in BOOLEAN /\ svCount = 0
        BY DEF SvInit
      <3>2. svCount \in 0 .. SvSessions + SvProcessors
        BY <3>1, SvAssumption
      <3> QED
        BY <3>1, <3>2 DEF CountOK, Steps, Building, ProcessorSteps, WithItems
    <2> QED
      BY <2>1, <2>2, <2>3 DEF ServiceInv
  <1>2. ServiceInv /\ [SvNext]_svcVars => ServiceInv'
    <2> SUFFICES ASSUME ServiceInv, [SvNext]_svcVars PROVE ServiceInv'
      OBVIOUS
    <2>1. CASE SvOnInit
      BY <2>1, OnInitReads, OnInitBuilds, OnInitSessions, OnInitProcessors, OnInitProcessor DEF SvOnInit
    <2>2. CASE UNCHANGED svcVars
      BY <2>2
      DEF svcVars, svKeeps, ServiceInv, HeldOK, HeldIs, BackOK, CountOK, ThreadsAndTimes, MayRun, HAll, HSection,
          HBase, HProcessors, HNoProcessor, HProxy, HTimesUnused, HTimesServer, HTimesPool, HScheduler, HPool,
          HServer, HMutex, HSessions, HEach, HArray, HEvents, HTracer, HConfiguration
    <2> QED
      BY <2>1, <2>2, OnStartKeeps, CancelKeeps, GivesBackKeeps DEF SvNext
  <1> QED
    BY <1>1, <1>2, PTL DEF SvSpec

LEMMA ServiceInvSafe == ServiceInv => ServiceWhole
  <1> SUFFICES ASSUME ServiceInv PROVE ServiceWhole
    OBVIOUS
  <1>1. svThreads \subseteq SvProcessorThreads \cup {SvOther("scheduler")}
                            \cup (IF svProxy THEN {SvOther("loadBalancer")} ELSE {})
    BY DEF ServiceInv, ThreadsAndTimes, MayRun
  <1>2. SvTypeOK
    BY <1>1 DEF SvTypeOK, ServiceInv, BackOK, CountOK
  <1>3. ServiceAllOrNothing /\ NoThreadLeft
    BY DEF ServiceAllOrNothing, NoThreadLeft, ServiceInv, BackOK, ThreadsAndTimes, MayRun, SvStarting
  <1>4. LastMadeFirst
    BY DEF LastMadeFirst, ServiceInv, BackOK, LastFirst, RangeOf
  <1>5. ASSUME NEW t \in svThreads PROVE SvNeeds(t) \subseteq svHeld
    <2>1. svHeld = {"hashMap"} \cup HAll
      <3>1. svPc \in Started
        BY <1>5 DEF ServiceInv, ThreadsAndTimes, MayRun, Started, SvStarting
      <3> QED
        BY <3>1 DEF ServiceInv, HeldOK, HeldIs
    <2> USE DEF HAll, HNoProcessor, HProxy, HTimesUnused, HTimesServer, HTimesPool, HScheduler, HPool, HServer,
                HMutex, HSessions, HEach, HArray, HEvents, HTracer, HConfiguration
    <2>2. CASE t \in SvProcessorThreads
      <3>1. t[1] = "processor"
        BY <2>2 DEF SvProcessorThreads, SvProcessorName
      <3> QED
        BY <2>1, <3>1 DEF SvNeeds
    <2>3. CASE t = SvOther("scheduler")
      <3>1. t[1] = "scheduler"
        BY <2>3 DEF SvOther
      <3> QED
        BY <2>1, <3>1 DEF SvNeeds
    <2>4. CASE svProxy /\ t = SvOther("loadBalancer")
      <3>1. t[1] = "loadBalancer"
        BY <2>4 DEF SvOther
      <3> QED
        BY <2>1, <2>4, <3>1 DEF SvNeeds
    <2> QED
      BY <1>1, <1>5, <2>2, <2>3, <2>4
  <1> QED
    BY <1>2, <1>3, <1>4, <1>5 DEF ServiceWhole, ThreadsUseHeldParts

\* An onInit that fails leaves what SvLeft says and no more, the parts are
\* finished once and the last one first, no thread uses a part that cancel has
\* finished, and none is left when the service is over.
THEOREM ServiceIsWhole == ServiceSpec => []ServiceWhole
  BY ServiceInvariant, ServiceInvSafe, PTL DEF ServiceSpec

=============================================================================
