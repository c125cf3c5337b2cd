---------------------------- MODULE SocketsPool ----------------------------
(***************************************************************************)
(* The pool of sockets that one thread polls (Socket/src/SocketsPool, the  *)
(* HAVE_POLL build).  The thread holds the recursive mutex of the pool     *)
(* through the poll and through the calls of updateSocketStatus, which may *)
(* itself add a socket and, when the pool allows it, delete the socket it  *)
(* is called for.  Any other thread that wants the mutex waits.            *)
(*                                                                         *)
(* A socket is named by its file descriptor.  The three kinds of status    *)
(* (read, write, exception) are treated alike by the code and are one kind *)
(* here.  Time is counted in ticks of the poll's timeout.                  *)
(*                                                                         *)
(* The thread object and the descriptors below the pool are modules of     *)
(* their own; what the operating system holds for them is stated here.     *)
(***************************************************************************)
EXTENDS PosixThread, SocketImpl, Sequences, FiniteSets

Table == INSTANCE Functions  \* the hash maps: Restrict is their erase

CONSTANTS PoolSockets,   \* the sockets, by file descriptor
          ulMaxSocketsNumber,
          NoPort,        \* -1: the socket is not bound
          LocalPort,     \* _lLocalPort of every socket
          PollTime,      \* the period of the check, in ticks
          bAllowDeletion \* _bAllowDeletionSocketFromUpdateMethod

ASSUME PoolAssumption ==
    /\ ulMaxSocketsNumber \in Nat
    /\ PollTime \in Nat
    /\ bAllowDeletion \in BOOLEAN

VARIABLES spStatus,    \* _ssSocketsPoolStatus
          spInfo,      \* _psiSocketsInfo: the socket and the slot of an info
          spFree,      \* _vFreeSocketsInfo
          spByFd,      \* _psiSocketsInfoSetByFileDescriptor
          spByPort,    \* _psiSocketsInfoSetBySocketPort
          spSlots,     \* _ppfDescriptors: descriptor and revents of a slot
          spShutdown,  \* _bIsShutdown
          spMutex,     \* _mtSocketsPool: is it held by the pool's thread?
          spPc,        \* where the pool's thread is in run
          spScan,      \* the sockets the scan of the hash map has yet to see
          spUpdates,   \* vSocketsToBeUpdated, or the one update of the scan
          spPoll,      \* the clock of the poll
          spReady,     \* the sockets with something to read
          spCancels    \* is somebody inside cancel?

poolTables == <<spStatus, spInfo, spFree, spByFd, spByPort, spSlots>>
poolThread == <<spMutex, spPc, spScan, spUpdates, spPoll>>
poolVars == <<poolTables, poolThread, spShutdown, spReady, spCancels>>

Infos == 1..ulMaxSocketsNumber
Slots == 0..(ulMaxSocketsNumber - 1)
NoFd == "none"
NoPoll == [elapsed |-> 0, called |-> 0, left |-> 0]
Members == DOMAIN spByFd
PoolSize == Cardinality(Members)

NoInfos == [i \in Infos |-> [fd |-> NoFd, slot |-> 0]]
NoSlots == [n \in Slots |-> [fd |-> NoFd, revents |-> FALSE]]

PoolInit ==
    /\ ThreadInit
    /\ spStatus = "BUILDED"
    /\ spInfo = NoInfos
    /\ spFree = <<>>
    /\ spByFd = <<>>
    /\ spByPort = <<>>
    /\ spSlots = NoSlots
    /\ spShutdown = FALSE
    /\ spMutex = FALSE
    /\ spPc = "out"
    /\ spScan = {}
    /\ spUpdates = <<>>
    /\ spPoll = NoPoll
    /\ spReady = {}
    /\ spCancels = FALSE

\* init allocates the infos, all of them free, and initialises the thread.
InitPool ==
    /\ spStatus = "BUILDED"
    /\ InitThread
    /\ spStatus' = "INITIALIZED"
    /\ spFree' = [i \in Infos |-> i]
    /\ UNCHANGED <<spInfo, spByFd, spByPort, spSlots, poolThread,
                   spShutdown, spReady, spCancels>>

\* finish is refused while the thread is not initialized or has not ended.
FinishPool ==
    /\ spStatus = "INITIALIZED" /\ ~spMutex /\ ~spCancels
    /\ FinishThread
    /\ spStatus' = "BUILDED"
    /\ spFree' = <<>> /\ spByFd' = <<>> /\ spByPort' = <<>>
    /\ spInfo' = NoInfos /\ spSlots' = NoSlots
    /\ spReady' = {}
    /\ UNCHANGED <<poolThread, spShutdown, spCancels>>

-----------------------------------------------------------------------------
(* addSocket, deleteSocket and findServerSocket: the effect under the mutex *)

\* The head of the free infos describes s in the slot after the last one; a
\* second socket with the same local port is taken out again.
addSocket(s) ==
    LET i == Head(spFree)
        n == PoolSize
        port == LocalPort[s]
    IN /\ s \notin Members /\ n < ulMaxSocketsNumber /\ spFree # <<>>
       /\ spSlots' = [spSlots EXCEPT ![n] = [fd |-> s, revents |-> FALSE]]
       /\ spInfo' = [spInfo EXCEPT ![i] = [fd |-> s, slot |-> n]]
       /\ IF port # NoPort /\ port \in DOMAIN spByPort
          THEN UNCHANGED <<spFree, spByFd, spByPort>>
          ELSE /\ spFree' = Tail(spFree)
               /\ spByFd' = [t \in Members \cup {s} |-> IF t = s THEN i ELSE spByFd[t]]
               /\ spByPort' =
                    IF port = NoPort THEN spByPort
                    ELSE [q \in DOMAIN spByPort \cup {port} |->
                            IF q = port THEN i ELSE spByPort[q]]
       /\ UNCHANGED spStatus

\* The last slot moves into the slot of the deleted socket.  The info of the
\* socket that was in the last slot is left as it is.
deleteSocket(s) ==
    LET i == spByFd[s]
        last == PoolSize - 1
    IN /\ s \in Members
       /\ spSlots' = [spSlots EXCEPT ![spInfo[i].slot] = spSlots[last]]
       /\ spByFd' = Table!Restrict(spByFd, Members \ {s})
       /\ spByPort' = IF LocalPort[s] = NoPort THEN spByPort
                      ELSE Table!Restrict(spByPort, DOMAIN spByPort \ {LocalPort[s]})
       /\ spFree' = Append(spFree, i)
       /\ UNCHANGED <<spStatus, spInfo>>

\* A thread other than the pool's, between two holds of the mutex.
AddSocket ==
    /\ spStatus = "INITIALIZED" /\ ~spMutex
    /\ \E s \in PoolSockets : addSocket(s)
    /\ UNCHANGED <<threadVars, poolThread, spShutdown, spReady, spCancels>>

DeleteSocket ==
    /\ spStatus = "INITIALIZED" /\ ~spMutex
    /\ \E s \in Members : deleteSocket(s) /\ spReady' = spReady \ {s}
    /\ UNCHANGED <<threadVars, poolThread, spShutdown, spCancels>>

\* The socket that findServerSocket returns for a port.
FindServerSocket(port) ==
    IF port \in DOMAIN spByPort THEN spInfo[spByPort[port]].fd ELSE NoFd

\* Data arrive for a member; nobody looks at the other sockets.
SocketReady ==
    /\ \E s \in Members \ spReady : spReady' = spReady \cup {s}
    /\ UNCHANGED <<threadVars, poolTables, poolThread, spShutdown, spCancels>>

-----------------------------------------------------------------------------
(* The thread: run and checkSocketsStatus *)

StartPool ==
    /\ spStatus = "INITIALIZED" /\ ~spCancels
    /\ StartThread(FALSE)
    /\ spPc' = IF thPc' = "running" THEN "begins" ELSE spPc
    /\ UNCHANGED <<poolTables, spMutex, spScan, spUpdates, spPoll, spShutdown,
                   spReady, spCancels>>

Running(where) == thPc = "running" /\ spPc = where

\* run forgets the shutdown that somebody asked for before.
BeginsRun ==
    /\ Running("begins")
    /\ spShutdown' = FALSE
    /\ spPc' = "check"
    /\ UNCHANGED <<threadVars, poolTables, spMutex, spScan, spUpdates, spPoll,
                   spReady, spCancels>>

\* An empty pool is not polled.
LockForCheck ==
    /\ Running("check") /\ ~spMutex
    /\ IF Members = {}
       THEN spPc' = "sleep" /\ UNCHANGED <<spMutex, spPoll>>
       ELSE /\ spPc' = "poll"
            /\ spMutex' = TRUE
            /\ spPoll' = [NoPoll EXCEPT !.left = PollTime]
    /\ UNCHANGED <<threadVars, poolTables, spScan, spUpdates, spShutdown,
                   spReady, spCancels>>

PolledSlots == {n \in Slots : n < PoolSize}
PolledReady == {n \in PolledSlots : spSlots[n].fd \in spReady}

PollTick ==
    /\ Running("poll") /\ PolledReady = {}
    /\ spPoll.elapsed - spPoll.called < spPoll.left
    /\ spPoll' = [spPoll EXCEPT !.elapsed = @ + 1]
    /\ UNCHANGED <<threadVars, poolTables, spMutex, spPc, spScan, spUpdates,
                   spShutdown, spReady, spCancels>>

\* After EINTR the time since the first call is taken from what was left at
\* the last one.
PollInterrupted ==
    /\ Running("poll") /\ PolledReady = {}
    /\ IF spPoll.elapsed >= spPoll.left
       THEN spPc' = "unlock" /\ UNCHANGED spPoll
       ELSE /\ spPoll' = [spPoll EXCEPT !.left = @ - spPoll.elapsed,
                                        !.called = spPoll.elapsed]
            /\ UNCHANGED spPc
    /\ UNCHANGED <<threadVars, poolTables, spMutex, spScan, spUpdates,
                   spShutdown, spReady, spCancels>>

PollExpires ==
    /\ Running("poll") /\ PolledReady = {}
    /\ spPoll.elapsed - spPoll.called = spPoll.left
    /\ spPc' = "unlock"
    /\ UNCHANGED <<threadVars, poolTables, spMutex, spScan, spUpdates, spPoll,
                   spShutdown, spReady, spCancels>>

PollReturns ==
    /\ Running("poll") /\ PolledReady # {}
    /\ spSlots' = [n \in Slots |->
                     [spSlots[n] EXCEPT !.revents = @ \/ n \in PolledReady]]
    /\ spScan' = Members
    /\ spPc' = "scan"
    /\ UNCHANGED <<threadVars, spStatus, spInfo, spFree, spByFd, spByPort,
                   spMutex, spUpdates, spPoll, spShutdown, spReady, spCancels>>

\* poll fails: run ends with the error.
PollFails ==
    /\ Running("poll")
    /\ RunReturns
    /\ spMutex' = FALSE /\ spPc' = "out"
    /\ UNCHANGED <<poolTables, spScan, spUpdates, spPoll, spShutdown, spReady,
                   spCancels>>

\* Mutant: the mutex is released after the scan, before the updates.
ScanSocketUnlocks ==
    /\ Running("scan") /\ (bAllowDeletion \/ spUpdates = <<>>)
    /\ \E s \in spScan :
         LET n == spInfo[spByFd[s]].slot
         IN /\ spScan' = spScan \ {s}
            /\ spUpdates' = IF spSlots[n].revents
                            THEN Append(spUpdates, spByFd[s]) ELSE spUpdates
            /\ spSlots' = [spSlots EXCEPT ![n].revents = FALSE]
    /\ spMutex' = (spScan' # {})
    /\ UNCHANGED <<threadVars, spStatus, spInfo, spFree, spByFd, spByPort,
                   spPc, spPoll, spShutdown, spReady, spCancels>>

\* One socket of the hash map, in its order, whatever it is: revents of the
\* slot its info points to is read and cleared.  The updates are kept for
\* after the scan when they may delete sockets, else each is done at once.
ScanSocket ==
    /\ Running("scan") /\ (bAllowDeletion \/ spUpdates = <<>>)
    /\ \E s \in spScan :
         LET n == spInfo[spByFd[s]].slot
         IN /\ spScan' = spScan \ {s}
            /\ spUpdates' = IF spSlots[n].revents
                            THEN Append(spUpdates, spByFd[s]) ELSE spUpdates
            /\ spSlots' = [spSlots EXCEPT ![n].revents = FALSE]
    /\ UNCHANGED <<threadVars, spStatus, spInfo, spFree, spByFd, spByPort,
                   spMutex, spPc, spPoll, spShutdown, spReady, spCancels>>

MayUpdate ==
    /\ Running("scan") /\ spUpdates # <<>>
    /\ bAllowDeletion => spScan = {}

\* updateSocketStatus reads the socket; it may also delete it, if the pool
\* allows that, or add the socket of a connection it accepts.
updateSocketStatus ==
    LET s == spInfo[Head(spUpdates)].fd
    IN /\ MayUpdate
       /\ spReady' = spReady \ {s}
       /\ spUpdates' = Tail(spUpdates)
       /\ \/ UNCHANGED poolTables
          \/ bAllowDeletion /\ deleteSocket(s)
          \/ bAllowDeletion /\ \E t \in PoolSockets : addSocket(t)
       /\ UNCHANGED <<threadVars, spMutex, spPc, spScan, spPoll, spShutdown,
                      spCancels>>

ScanEnds ==
    /\ Running("scan") /\ spScan = {} /\ spUpdates = <<>>
    /\ spPc' = "unlock"
    /\ UNCHANGED <<threadVars, poolTables, spMutex, spScan, spUpdates, spPoll,
                   spShutdown, spReady, spCancels>>

UnlockAfterCheck ==
    /\ Running("unlock")
    /\ spMutex' = FALSE
    /\ spPoll' = NoPoll
    /\ spPc' = "sleep"
    /\ UNCHANGED <<threadVars, poolTables, spScan, spUpdates, spShutdown,
                   spReady, spCancels>>

\* Mutant: run reads the flag only after a check that found no socket to update.
ReadsShutdownWhenIdle ==
    /\ Running("sleep")
    /\ IF spShutdown /\ spReady = {} /\ Members = {} THEN RunReturns /\ spPc' = "out"
       ELSE spPc' = "check" /\ UNCHANGED threadVars
    /\ UNCHANGED <<poolTables, spMutex, spScan, spUpdates, spPoll, spShutdown,
                   spReady, spCancels>>

\* After the sleep run reads the shutdown flag.
ReadsShutdown ==
    /\ Running("sleep")
    /\ IF spShutdown THEN RunReturns /\ spPc' = "out"
       ELSE spPc' = "check" /\ UNCHANGED threadVars
    /\ UNCHANGED <<poolTables, spMutex, spScan, spUpdates, spPoll, spShutdown,
                   spReady, spCancels>>

checkSocketsStatus ==
    \/ LockForCheck \/ PollTick \/ PollInterrupted \/ PollExpires
    \/ PollReturns \/ ScanSocket \/ updateSocketStatus \/ ScanEnds
    \/ UnlockAfterCheck

PoolRun == BeginsRun \/ checkSocketsStatus \/ ReadsShutdown

-----------------------------------------------------------------------------
(* The owner *)

PoolRunFunction == runFunction /\ UNCHANGED poolVars

\* join of the pool's thread, by a thread of its own.
JoinPool == joinThread /\ UNCHANGED poolVars

cancelPool ==
    /\ spStatus = "INITIALIZED" /\ ~spCancels
    /\ spShutdown' = TRUE
    /\ spCancels' = TRUE
    /\ UNCHANGED <<threadVars, poolTables, poolThread, spReady>>

\* The thread ends within the five seconds that cancel waits for it, ...
CancelSeesEnd ==
    /\ spCancels
    /\ thStatus \notin {"STARTED", "STARTED_AND_JOINED"}
    /\ spCancels' = FALSE
    /\ UNCHANGED <<threadVars, poolTables, poolThread, spShutdown, spReady>>

\* ... or it is cancelled, in the poll or in the sleep, and the mutex stays
\* as it is.  PosixThread::cancel refuses a thread that is being joined.
CancelGivesUp ==
    /\ spCancels
    /\ thStatus \in {"STARTED", "STARTED_AND_JOINED"}
    /\ spCancels' = FALSE
    /\ IF thStatus = "STARTED" /\ spPc \in {"begins", "poll", "sleep"}
       THEN /\ CancelThread
            /\ spPc' = "out" /\ spScan' = {} /\ spUpdates' = <<>>
            /\ UNCHANGED <<spMutex, spPoll>>
       ELSE UNCHANGED <<threadVars, poolThread>>
    /\ UNCHANGED <<poolTables, spShutdown, spReady>>

PoolNext ==
    \/ InitPool \/ FinishPool \/ StartPool \/ JoinPool
    \/ cancelPool \/ CancelSeesEnd \/ CancelGivesUp
    \/ AddSocket \/ DeleteSocket \/ SocketReady
    \/ PoolRun \/ PollFails \/ PoolRunFunction

PoolSpec == PoolInit /\ [][PoolNext]_<<threadVars, poolVars>>

-----------------------------------------------------------------------------

\* The variables have the values the code gives them.
PoolTypeOK ==
    /\ spStatus \in {"BUILDED", "INITIALIZED"}
    /\ spInfo \in [Infos -> [fd : PoolSockets \cup {NoFd}, slot : Slots]]
    /\ spFree \in Seq(Infos)
    /\ Members \subseteq PoolSockets
    /\ \A s \in Members : spByFd[s] \in Infos
    /\ \A q \in DOMAIN spByPort : spByPort[q] \in Infos
    /\ spSlots \in [Slots -> [fd : PoolSockets \cup {NoFd}, revents : BOOLEAN]]
    /\ spShutdown \in BOOLEAN /\ spMutex \in BOOLEAN /\ spCancels \in BOOLEAN
    /\ spPc \in {"out", "begins", "check", "poll", "scan", "unlock", "sleep"}
    /\ spScan \subseteq Members
    /\ spUpdates \in Seq(Infos)
    /\ spReady \subseteq Members

\* Of an initialized pool every info is either free, once, or describes
\* exactly one member, and the two hash maps agree: a port leads to the
\* member that is bound to it, and findServerSocket finds each bound member.
PoolInfosConserved ==
    spStatus = "INITIALIZED" =>
        /\ Cardinality(Members) + Len(spFree) = ulMaxSocketsNumber
        /\ {spByFd[s] : s \in Members} \cup {spFree[k] : k \in DOMAIN spFree} = Infos
        /\ \A s \in Members : spInfo[spByFd[s]].fd = s
        /\ \A s \in Members : LocalPort[s] # NoPort => FindServerSocket(LocalPort[s]) = s
        /\ \A q \in DOMAIN spByPort : FindServerSocket(q) \in Members

\* updateSocketStatus is only called for a socket that is in the pool at that
\* moment: no deletion comes between the poll and the call.
UpdatesOfMembers == MayUpdate => spInfo[Head(spUpdates)].fd \in Members

\* Signals do not make a check of the pool last longer than its period.
PollWithinPeriod == spPoll.elapsed <= PollTime

\* While the thread polls and others add, delete and cancel, each member of the
\* pool has one info, the updates of a scan go to members only, and a poll that
\* signals interrupt does not outlast its period.
PoolConsistent ==
    ThreadTypeOK /\ PoolTypeOK /\ PoolInfosConserved /\ UpdatesOfMembers /\ PollWithinPeriod

\* Once somebody has asked for the shutdown, the thread ends, unless it only
\* begins its run and takes the request back.
ShutdownEndsPool ==
    (spShutdown /\ thPc = "running") ~> (thPc # "running" \/ ~spShutdown)

KernelSpec == ThreadSpec /\ ImplSpec

\* What the kernel holds for the objects is given back: a thread is joined or
\* detached exactly once although its owner and its last lines race for the
\* status, one thread runs an object at a time, and every open descriptor is
\* the one of a socket on every error path.
KernelResourcesOwned ==
    /\ []ThreadsReleased /\ OneThreadPerObject
    /\ []ImplTypeOK /\ []DescriptorsOwned

\* "check the status of all the sockets belonging to the pool": poll is given
\* the descriptor of every member.
PollsAllMembers ==
    spPc = "poll" => {spSlots[n].fd : n \in PolledSlots} = Members

=============================================================================
