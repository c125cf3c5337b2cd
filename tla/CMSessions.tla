----------------------------- MODULE CMSessions -----------------------------
(***************************************************************************)
(* ConnectionsManager: the sessions of the server.  A session holds one    *)
(* connection after the other.  Processors accept connections into free    *)
(* sessions, read and answer requests; between two requests the socket is  *)
(* in the sockets pool, whose check turns a readable socket into an event; *)
(* a periodic check releases the sessions nobody has used for too long.    *)
(* The start time, in seconds, is how a session tells a late event.        *)
(***************************************************************************)
EXTENDS Integers, Sequences, FiniteSets

CONSTANTS CmSessions,    \* 1 .. _ulMaxConnections
          CmProcs,       \* the processors: strings
          CmTTL,         \* _ulMaxConnectionTTLInSeconds
          CmMaxAccept,   \* _ulMaxSimultaneousConnectionsToAccept
          CmProxied,     \* _bIsHTTPProxyEnabled
          CmConns,       \* a bound on the connections
          CmLastRequest, \* a bound on the time of the last request
          CmMaxRequests, \* a bound on the requests read
          CmMaxFailures  \* a bound on the calls that fail

ASSUME CmAssumption ==
    /\ CmSessions \in SUBSET (Nat \ {0}) /\ CmTTL \in Nat \ {0} /\ CmMaxAccept \in Nat
    /\ CmProxied \in BOOLEAN /\ CmConns \in Nat /\ CmLastRequest \in Nat
    /\ CmMaxRequests \in Nat /\ CmMaxFailures \in Nat

VARIABLES csFree,      \* _phmFreeSessions
          csConn,      \* the connection on the socket of a session, 0 when there is none
          csStart,     \* _tUTCStartConnectionTime
          csLast,      \* _tUTCLastRead
          csPool,      \* the sockets pool: pairs of a session and a connection
          csQueue,     \* the events CM_EVENT_CONNECTIONREADYTOREAD
          csProxies,   \* the HTTPProxyThreads
          csAt,        \* where a processor is
          csNow,       \* time (NULL)
          csAccepted,  \* the connections so far
          csRequests,  \* the requests so far
          csFails,     \* the calls that failed
          csSuspect,   \* history: sessions made free after a release that failed,
                       \* or with a request whose body came too late
          csCrossed    \* history: the start times of an event and of the other
                       \* connection it was used on

csSession == <<csConn, csStart, csLast>>
csHistory == <<csSuspect, csCrossed>>
csBounds == <<csNow, csAccepted, csRequests, csFails>>
sessionsVars == <<csFree, csSession, csPool, csQueue, csProxies, csAt, csBounds, csHistory>>

CmLastTime == CmLastRequest + CmTTL
Event(s) == [s |-> s, start |-> csStart[s], conn |-> csConn[s]]
CmIdle == [pc |-> "idle", s |-> 0, start |-> 0, conn |-> 0, n |-> 0, now |-> 0]

\* The sessions are initialized and free.
CsInit ==
    /\ csFree = CmSessions
    /\ csConn = [s \in CmSessions |-> 0]
    /\ csStart = [s \in CmSessions |-> 0] /\ csLast = [s \in CmSessions |-> 0]
    /\ csPool = {} /\ csQueue = <<>> /\ csProxies = {}
    /\ csAt = [p \in CmProcs |-> CmIdle]
    /\ csNow = 1 /\ csAccepted = 0 /\ csRequests = 0 /\ csFails = 0
    /\ csSuspect = {} /\ csCrossed = {}

CmAt(p, pc) == csAt[p].pc = pc
CmGoes(p, pc) == csAt' = [csAt EXCEPT ![p].pc = pc]
CmEnds(p) == csAt' = [csAt EXCEPT ![p] = CmIdle]
CmFails == csFails < CmMaxFailures /\ csFails' = csFails + 1
SessionOf(p) == csAt[p].s
Fd(s) == <<s, csConn[s]>>

Opened(s, c, t) ==
    /\ csConn' = [csConn EXCEPT ![s] = c]
    /\ csStart' = [csStart EXCEPT ![s] = t]
    /\ csLast' = [csLast EXCEPT ![s] = t]

(***************************************************************************)
(* Session::releaseConnection, under the mutex of the session.             *)
(***************************************************************************)

\* The socket is closed and made anew, the times are zero.
CloseSocket(s) == Opened(s, 0, 0)

\* The socket is not in the pool: nothing else is done.
DeleteSocketFails(s) ==
    /\ Fd(s) \notin csPool
    /\ UNCHANGED <<csSession, csPool, csFails>>

ReleaseOk(s, deletes) ==
    /\ deletes => Fd(s) \in csPool
    /\ csPool' = IF deletes THEN csPool \ {Fd(s)} ELSE csPool
    /\ CloseSocket(s)
    /\ UNCHANGED csFails

ReleaseFails(s, deletes) ==
    /\ deletes => Fd(s) \in csPool
    /\ csPool' = IF deletes THEN csPool \ {Fd(s)} ELSE csPool
    /\ CmFails
    /\ UNCHANGED csSession

\* A processor releases the connection of its event; whatever the outcome,
\* it goes on to make the session free.
HandlerReleases(p, deletes) ==
    LET s == SessionOf(p)
    IN /\ \/ ReleaseOk(s, deletes) /\ UNCHANGED csSuspect
          \/ ReleaseFails(s, deletes) /\ csSuspect' = csSuspect \cup {s}
          \/ deletes /\ DeleteSocketFails(s) /\ csSuspect' = csSuspect \cup {s}
       /\ CmGoes(p, "insert")
       /\ UNCHANGED <<csFree, csQueue, csProxies, csNow, csAccepted, csRequests, csCrossed>>

\* Under the mutex of the free sessions; a session that is there already is
\* only traced.
InsertFree(p) ==
    /\ CmAt(p, "insert")
    /\ csFree' = csFree \cup {SessionOf(p)}
    /\ CmEnds(p)
    /\ UNCHANGED <<csSession, csPool, csQueue, csProxies, csBounds, csHistory>>

(***************************************************************************)
(* handleConnectionToAcceptEvent                                           *)
(***************************************************************************)
AcceptBegins(p) ==
    /\ CmAt(p, "idle")
    /\ csAccepted < CmConns /\ csNow <= CmLastRequest
    /\ CmGoes(p, "accept")
    /\ UNCHANGED <<csFree, csSession, csPool, csQueue, csProxies, csBounds, csHistory>>

CanAccept(p) == CmAt(p, "accept") /\ csAt[p].n < CmMaxAccept

\* No session is free, or no connection waits, or accept fails.
AcceptNone(p) ==
    /\ CmAt(p, "accept")
    /\ CmEnds(p)
    /\ UNCHANGED <<csFree, csSession, csPool, csQueue, csProxies, csBounds, csHistory>>

\* After accept the address of the client or an option of the socket fails:
\* the socket is made anew, the session stays free.
AcceptLost(p, s) ==
    /\ CanAccept(p) /\ s \in csFree
    /\ csAccepted < CmConns /\ csNow <= CmLastRequest
    /\ csAccepted' = csAccepted + 1
    /\ CmFails
    /\ CloseSocket(s)
    /\ CmEnds(p)
    /\ UNCHANGED <<csFree, csPool, csQueue, csProxies, csNow, csRequests, csHistory>>

getRemoteAddressFails(p, s) == AcceptLost(p, s)
setReceivingTimeoutFails(p, s) == AcceptLost(p, s)
setOptionsFails(p, s) == AcceptLost(p, s)

\* Under the mutex of the free sessions and that of the session: the first
\* free session accepts and is taken out.
acceptConnection(p, s) ==
    /\ CanAccept(p) /\ s \in csFree
    /\ csAccepted < CmConns /\ csNow <= CmLastRequest
    /\ csAccepted' = csAccepted + 1
    /\ Opened(s, csAccepted + 1, csNow)
    /\ csFree' = csFree \ {s}
    /\ csAt' = [csAt EXCEPT ![p].pc = "accepted", ![p].s = s, ![p].n = @ + 1]
    /\ UNCHANGED <<csPool, csQueue, csProxies, csNow, csRequests, csFails, csHistory>>

\* No event for the connection.
AcceptNoEvent(p) ==
    /\ CmAt(p, "accepted")
    /\ CmFails
    /\ CmGoes(p, "drop")
    /\ UNCHANGED <<csFree, csSession, csPool, csQueue, csProxies, csNow, csAccepted, csRequests,
                   csHistory>>

\* The event is handled by the processor itself.
AcceptHandles(p) ==
    /\ CmAt(p, "accepted")
    /\ LET e == Event(SessionOf(p))
       IN csAt' = [csAt EXCEPT ![p].pc = "read", ![p].start = e.start, ![p].conn = e.conn]
    /\ UNCHANGED <<csFree, csSession, csPool, csQueue, csProxies, csBounds, csHistory>>

AcceptDrops(p) == CmAt(p, "drop") /\ HandlerReleases(p, FALSE)

\* The handler is done: the loop of the accept goes on when it was called
\* from there and took no longer than it should.
HandlerReturns(p) ==
    \/ CmEnds(p)
    \/ /\ csAt[p].n > 0
       /\ csAt' = [csAt EXCEPT ![p] = [CmIdle EXCEPT !.pc = "accept", !.n = csAt[p].n]]

(***************************************************************************)
(* handleConnectionReadyToReadEvent                                        *)
(***************************************************************************)
ReadyToRead(p) ==
    /\ CmAt(p, "idle") /\ csQueue # <<>>
    /\ csAt' = [csAt EXCEPT ![p] = [CmIdle EXCEPT !.pc = "read", !.s = Head(csQueue).s,
                                    !.start = Head(csQueue).start, !.conn = Head(csQueue).conn]]
    /\ csQueue' = Tail(csQueue)
    /\ UNCHANGED <<csFree, csSession, csPool, csProxies, csBounds, csHistory>>

\* Mutant: the session does not look at the start time of the event.
SameStartUnchecked(e) == TRUE

SameStart(e) == e.start = csStart[e.s]

\* Event e is used on the connection the session has now.
Crosses(e) ==
    csCrossed' = IF csConn[e.s] \notin {0, e.conn}
                 THEN csCrossed \cup {<<e.start, csStart[e.s]>>} ELSE csCrossed

ReadOld(p) ==
    /\ CmAt(p, "read") /\ ~SameStart(csAt[p])
    /\ CmEnds(p)
    /\ UNCHANGED <<csFree, csSession, csPool, csQueue, csProxies, csBounds, csHistory>>

\* The client has closed the connection, or the read fails.
ReadEnds(p) ==
    /\ CmAt(p, "read") /\ SameStart(csAt[p])
    /\ Crosses(csAt[p])
    /\ CmGoes(p, "release")
    /\ UNCHANGED <<csFree, csSession, csPool, csQueue, csProxies, csBounds, csSuspect>>

\* addSocket: a socket that is in the pool is refused, and so is any socket
\* when the pool is full.
addSocketOk(s) == Fd(s) \notin csPool /\ csPool' = csPool \cup {Fd(s)} /\ UNCHANGED csFails
addSocketFails(s) ==
    /\ UNCHANGED csPool
    /\ IF Fd(s) \in csPool THEN UNCHANGED csFails ELSE CmFails

\* The header does not come in time: the socket goes back to the pool.
ReadHeaderTimeout(p) ==
    LET s == SessionOf(p)
    IN /\ CmAt(p, "read") /\ SameStart(csAt[p])
       /\ Crosses(csAt[p])
       /\ \/ addSocketOk(s) /\ HandlerReturns(p)
          \/ addSocketFails(s) /\ CmGoes(p, "release")
       /\ UNCHANGED <<csFree, csSession, csQueue, csProxies, csNow, csAccepted, csRequests,
                      csSuspect>>

Requested == csRequests < CmMaxRequests /\ csRequests' = csRequests + 1

ReadRequest(p) ==
    LET s == SessionOf(p)
    IN /\ CmAt(p, "read") /\ SameStart(csAt[p]) /\ csConn[s] # 0
       /\ csNow <= CmLastRequest /\ Requested
       /\ Crosses(csAt[p])
       /\ csLast' = [csLast EXCEPT ![s] = csNow]
       /\ CmGoes(p, IF CmProxied THEN "proxy" ELSE "process")
       /\ UNCHANGED <<csFree, csConn, csStart, csPool, csQueue, csProxies, csNow, csAccepted,
                      csFails, csSuspect>>

\* The body does not come in time: the socket goes back to the pool and the
\* request is processed as it is.
ReadBodyTimeout(p) ==
    LET s == SessionOf(p)
    IN /\ CmAt(p, "read") /\ SameStart(csAt[p]) /\ csConn[s] # 0
       /\ csNow <= CmLastRequest /\ Requested
       /\ Crosses(csAt[p])
       /\ csSuspect' = csSuspect \cup {s}
       /\ \/ /\ addSocketOk(s)
             /\ csLast' = [csLast EXCEPT ![s] = csNow]
             /\ CmGoes(p, IF CmProxied THEN "proxy" ELSE "process")
          \/ addSocketFails(s) /\ CmGoes(p, "release") /\ UNCHANGED csLast
       /\ UNCHANGED <<csFree, csConn, csStart, csQueue, csProxies, csNow, csAccepted>>

ReadReleases(p) == CmAt(p, "release") /\ HandlerReleases(p, FALSE)

(***************************************************************************)
(* Session::writeResponse: e is who writes, under the mutex.               *)
(***************************************************************************)
WriteOld(e) == ~SameStart(e) /\ UNCHANGED <<csPool, csFails, csCrossed>>

WriteFails(e) == SameStart(e) /\ Crosses(e) /\ CmFails /\ UNCHANGED csPool

WritePart(e) == SameStart(e) /\ csConn[e.s] # 0 /\ Crosses(e) /\ UNCHANGED <<csPool, csFails>>

WriteFinished(e) == SameStart(e) /\ csConn[e.s] # 0 /\ Crosses(e) /\ addSocketOk(e.s)

WriteNotAdded(e) == SameStart(e) /\ csConn[e.s] # 0 /\ Crosses(e) /\ addSocketFails(e.s)

WriteError(e) == WriteOld(e) \/ WriteFails(e) \/ WriteNotAdded(e)

Writing == UNCHANGED <<csFree, csSession, csQueue, csNow, csAccepted, csRequests, csSuspect>>

\* processReceivedRequest, which the program overrides: it answers.
processReceivedRequest(p) ==
    /\ CmAt(p, "process")
    /\ WriteFinished(csAt[p])
    /\ HandlerReturns(p)
    /\ UNCHANGED csProxies /\ Writing

\* It fails, and leaves the closing of the socket as it is by default, or
\* turns it off.
ProcessFails(p) ==
    /\ CmAt(p, "process")
    /\ WriteError(csAt[p])
    /\ CmGoes(p, "close") \/ CmEnds(p)
    /\ UNCHANGED csProxies /\ Writing

\* A processor that does nothing returns no error.
ProcessNothing(p) ==
    /\ CmAt(p, "process")
    /\ HandlerReturns(p)
    /\ UNCHANGED <<csFree, csSession, csPool, csQueue, csProxies, csBounds, csHistory>>

CloseInCaseOfError(p) == CmAt(p, "close") /\ HandlerReleases(p, TRUE)

(***************************************************************************)
(* The HTTP proxy.                                                         *)
(***************************************************************************)
\* The method is not in the section of the proxy.
NotToBeProxied(p) ==
    /\ CmAt(p, "proxy")
    /\ CmGoes(p, "process")
    /\ UNCHANGED <<csFree, csSession, csPool, csQueue, csProxies, csBounds, csHistory>>

manageHTTPProxyRequest(p) ==
    LET e == [s |-> SessionOf(p), start |-> csAt[p].start, conn |-> csAt[p].conn]
    IN /\ CmAt(p, "proxy") /\ e \notin csProxies
       /\ csProxies' = csProxies \cup {e}
       /\ HandlerReturns(p)
       /\ UNCHANGED <<csFree, csSession, csPool, csQueue, csBounds, csHistory>>

\* The client is told and the socket closed.
ProxyFails(p) ==
    /\ CmAt(p, "proxy") /\ CmFails
    /\ CmGoes(p, "sendError")
    /\ UNCHANGED <<csFree, csSession, csPool, csQueue, csProxies, csNow, csAccepted, csRequests,
                   csHistory>>

ProxyBadRequest(p) == ProxyFails(p)
ProxyParameterMissing(p) == ProxyFails(p)
ProxyNoWebServer(p) == ProxyFails(p)

sendErrorToHTTPClient(p) ==
    /\ CmAt(p, "sendError")
    /\ WriteFinished(csAt[p]) \/ WriteError(csAt[p])
    /\ CmGoes(p, "close")
    /\ UNCHANGED csProxies /\ Writing

ProxyEnd(e) == csProxies' = csProxies \ {e}

\* A chunk that is not the last one.
chunkRead(e) ==
    /\ WritePart(e)
    /\ UNCHANGED <<csProxies, csAt>> /\ Writing

\* The last chunk, or a failed write that ends the thread.
closingHttpGet(e) ==
    /\ WriteFinished(e) \/ WriteError(e)
    /\ ProxyEnd(e)
    /\ UNCHANGED csAt /\ Writing

\* The web server closes before the length it has told: nothing is closed.
ProxyEndsShort(e) ==
    /\ ProxyEnd(e)
    /\ UNCHANGED <<csFree, csSession, csPool, csQueue, csAt, csBounds, csHistory>>

(***************************************************************************)
(* CMSocketsPool::updateSocketStatus, under the mutex of the pool.         *)
(***************************************************************************)

Deleted(s) == csPool' = csPool \ {Fd(s)}

\* The event carries what the session says now.
SocketReadable(s, c) ==
    /\ <<s, c>> \in csPool /\ csNow <= CmLastRequest
    /\ Fd(s) \in csPool
    /\ csQueue' = Append(csQueue, Event(s))
    /\ Deleted(s)
    /\ UNCHANGED <<csFree, csSession, csProxies, csAt, csBounds, csHistory>>

\* addEvent fails: the socket is put back.
AddEventFails(s, c) ==
    /\ <<s, c>> \in csPool /\ Fd(s) \in csPool /\ CmFails
    /\ UNCHANGED <<csFree, csSession, csPool, csQueue, csProxies, csAt, csNow, csAccepted,
                   csRequests, csHistory>>

(***************************************************************************)
(* handleCheckUnusedSocketsEvent                                           *)
(***************************************************************************)
CmFirst == CHOOSE s \in CmSessions : \A t \in CmSessions : s <= t
ScanNext(p) ==
    LET later == {s \in CmSessions : s > SessionOf(p)}
    IN IF later = {} THEN CmEnds(p)
       ELSE csAt' = [csAt EXCEPT ![p].pc = "scan",
                                 ![p].s = CHOOSE s \in later : \A t \in later : s <= t]

ScanBegins(p) ==
    /\ CmAt(p, "idle") /\ \A q \in CmProcs : csAt[q].now = 0
    /\ csFree # CmSessions
    /\ csAt' = [csAt EXCEPT ![p] = [CmIdle EXCEPT !.pc = "scan", !.s = CmFirst, !.now = csNow]]
    /\ UNCHANGED <<csFree, csSession, csPool, csQueue, csProxies, csBounds, csHistory>>

isOlderThan(s, now) == csStart[s] # 0 /\ now - csLast[s] >= CmTTL

ScanSession(p) ==
    /\ CmAt(p, "scan")
    /\ IF isOlderThan(SessionOf(p), csAt[p].now) THEN CmGoes(p, "expire") ELSE ScanNext(p)
    /\ UNCHANGED <<csFree, csSession, csPool, csQueue, csProxies, csBounds, csHistory>>

\* Mutant: the next session is looked at when the socket is not in the pool.
ScanReleasesContinues(p) ==
    LET s == SessionOf(p)
    IN /\ CmAt(p, "expire")
       /\ \/ ReleaseOk(s, TRUE) /\ CmGoes(p, "expired") /\ UNCHANGED csSuspect
          \/ DeleteSocketFails(s) /\ ScanNext(p) /\ UNCHANGED csSuspect
          \/ ReleaseFails(s, TRUE) /\ CmEnds(p) /\ UNCHANGED csSuspect
       /\ UNCHANGED <<csFree, csQueue, csProxies, csNow, csAccepted, csRequests, csCrossed>>

\* A socket that is not in the pool leaves the connection open, and the
\* session is made free all the same.
ScanReleases(p) ==
    LET s == SessionOf(p)
    IN /\ CmAt(p, "expire")
       /\ \/ ReleaseOk(s, TRUE) /\ CmGoes(p, "expired") /\ UNCHANGED csSuspect
          \/ DeleteSocketFails(s) /\ CmGoes(p, "expired") /\ csSuspect' = csSuspect \cup {s}
          \/ ReleaseFails(s, TRUE) /\ CmEnds(p) /\ UNCHANGED csSuspect
       /\ UNCHANGED <<csFree, csQueue, csProxies, csNow, csAccepted, csRequests, csCrossed>>

resetSession(s) ==
    csStart' = [csStart EXCEPT ![s] = 0] /\ csLast' = [csLast EXCEPT ![s] = 0]

\* A session that is free already is reset: its times are zero.
ScanInserts(p) ==
    LET s == SessionOf(p)
    IN /\ CmAt(p, "expired")
       /\ csFree' = csFree \cup {s}
       /\ IF s \in csFree THEN resetSession(s) ELSE UNCHANGED <<csStart, csLast>>
       /\ ScanNext(p)
       /\ UNCHANGED <<csConn, csPool, csQueue, csProxies, csBounds, csHistory>>

\* Time before the first connection is of no account.
CmTick ==
    /\ csNow < CmLastTime /\ csAccepted > 0
    /\ csNow' = csNow + 1
    /\ UNCHANGED <<csFree, csSession, csPool, csQueue, csProxies, csAt, csAccepted, csRequests,
                   csFails, csHistory>>

ScanStep(p) == ScanSession(p) \/ ScanReleases(p) \/ ScanInserts(p)

ReadStep(p) ==
    ReadOld(p) \/ ReadEnds(p) \/ ReadHeaderTimeout(p) \/ ReadRequest(p) \/ ReadBodyTimeout(p)

HandleStep(p) ==
    \/ AcceptNone(p) \/ AcceptNoEvent(p) \/ AcceptHandles(p) \/ AcceptDrops(p)
    \/ \E s \in CmSessions :
         \/ getRemoteAddressFails(p, s) \/ setReceivingTimeoutFails(p, s)
         \/ setOptionsFails(p, s) \/ acceptConnection(p, s)
    \/ ReadStep(p) \/ ReadReleases(p)
    \/ processReceivedRequest(p) \/ ProcessFails(p) \/ ProcessNothing(p) \/ CloseInCaseOfError(p)
    \/ NotToBeProxied(p) \/ manageHTTPProxyRequest(p) \/ ProxyBadRequest(p)
    \/ ProxyParameterMissing(p) \/ ProxyNoWebServer(p) \/ sendErrorToHTTPClient(p) \/ InsertFree(p)

CsNext ==
    \/ \E p \in CmProcs :
         AcceptBegins(p) \/ ReadyToRead(p) \/ ScanBegins(p) \/ ScanStep(p) \/ HandleStep(p)
    \/ \E e \in csProxies : chunkRead(e) \/ closingHttpGet(e) \/ ProxyEndsShort(e)
    \/ \E e \in csPool : SocketReadable(e[1], e[2]) \/ AddEventFails(e[1], e[2])
    \/ CmTick

\* The processors take the steps they can, the timer of the check expires
\* period after period, time passes.
CsFairness ==
    /\ \A p \in CmProcs : /\ WF_sessionsVars(HandleStep(p) \/ ScanStep(p) \/ ReadyToRead(p))
                          /\ WF_sessionsVars(ScanBegins(p))
    /\ WF_sessionsVars(CmTick)

CsSpec == CsInit /\ [][CsNext]_sessionsVars

(***************************************************************************)
(* Properties.                                                             *)
(***************************************************************************)
\* The variables have their types.
CsTypeOK ==
    /\ csFree \subseteq CmSessions
    /\ csConn \in [CmSessions -> 0 .. CmConns]
    /\ csStart \in [CmSessions -> 0 .. CmLastTime] /\ csLast \in [CmSessions -> 0 .. CmLastTime]
    /\ csPool \subseteq CmSessions \X (0 .. CmConns)
    /\ \A i \in 1 .. Len(csQueue) : csQueue[i].s \in CmSessions
    /\ \A p \in CmProcs : csAt[p].s \in CmSessions \cup {0}
    /\ csNow \in 1 .. CmLastTime

\* The holders of the connection of session s: the pool, the queue, a
\* processor that handles it and a proxy thread.  A processor that closes it
\* after an error has put it back already.
Holders(s) ==
    LET Mine(e) == e.s = s /\ e.conn = csConn[s]
    IN Cardinality(csPool \cap {Fd(s)})
       + Cardinality({i \in 1 .. Len(csQueue) : Mine(csQueue[i])})
       + Cardinality({p \in CmProcs : ~CmAt(p, "close") /\ Mine(csAt[p])})
       + Cardinality({e \in csProxies : Mine(e)})

\* The comment of releaseConnection: a session whose socket another thread
\* has is not put among the free ones.  It holds of the sessions that were
\* never made free after a release that failed, and whose requests came whole.
FreeUnused == \A s \in csFree \ csSuspect : csConn[s] = 0 /\ csStart[s] = 0

\* An open connection of such a session is in one place only: in the pool, in
\* an event, with a processor or with a proxy thread.
HeldOnlyOnce == \A s \in CmSessions \ csSuspect : csConn[s] # 0 => Holders(s) <= 1

\* A request is read from, an answer written to, another connection than that
\* of the event only if both began in the same second, or the session was
\* reset while it was in use.
AnswersToOwner == \A x \in csCrossed : x[1] = x[2]

\* Processors, a proxy and the check of unused sockets meet on a session: none
\* is free while it is used, none is with two processors as its owner, and an
\* answer goes to the client that asked, but for the cases that the three parts
\* name (a release that failed, a late body, connections of one second).
SessionsOwned == CsTypeOK /\ FreeUnused /\ HeldOnlyOnce /\ AnswersToOwner

\* The session of a client that is silent is free again in the end, whatever
\* the handlers did with it.
UnusedFreed == \A s \in CmSessions : s \notin csFree ~> s \in csFree

\* The same without an exception.
NeverFreeInUse == \A s \in csFree : csConn[s] = 0
=============================================================================
