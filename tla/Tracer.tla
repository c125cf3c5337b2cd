------------------------------- MODULE Tracer -------------------------------
(***************************************************************************)
(* Tracer/src/Tracer: clients put their traces into the main pool; the     *)
(* thread of the object exchanges it with the secondary pool period after  *)
(* period, moves the traces of that one to a cache and the cache, when it  *)
(* is full, to the trace file.  Without a cache the client that traces     *)
(* does all of this itself.  The files are in module TraceFiles.           *)
(***************************************************************************)
EXTENDS Integers, Sequences

CONSTANTS TrClients,     \* the threads that trace: strings
          TrMaxTraces,   \* lMaxTracesNumber
          TrOverflow,    \* lTracesNumberAllocatedOnOverflow
          TrCacheSize,   \* lCacheSizeOfTraceFile * 1024
          TrSizes,       \* the lengths of traces
          TrOnTTY,       \* _bTraceOnTTY
          TrLevel,       \* _ulTraceLevel
          TrMaxCalls,    \* a bound on the traces
          TrMaxSets      \* a bound on the changes of the options

ASSUME TracerAssumption ==
    /\ TrMaxTraces \in Nat /\ TrOverflow \in Nat \ {0} /\ TrCacheSize \in Nat
    /\ TrOnTTY \in BOOLEAN /\ TrLevel \in Nat
    /\ TrClients \cap {"thread", "owner", "none"} = {}
    /\ TrSizes \subseteq Nat \ {0} /\ TrMaxCalls \in Nat /\ TrMaxSets \in Nat

VARIABLES trPc,        \* where the owner is
          trHeld,      \* what init has acquired, in its order
          trCached,    \* _bTraceFileCacheActive
          trMain,      \* _ptiTraces
          trAlloc,     \* _lAllocatedTracesNumber
          trManage,    \* _ptiTracesToManage
          trManageAlloc,
          trIndex,     \* the next trace of trManage
          trLost,      \* _lLostTracesNumber
          trCache,     \* the traces in _pTraceFileCache
          trBusy,      \* _lCurrentCacheBusyInBytes
          trOnFile,    \* _bTraceOnFile
          trVar,       \* who holds _mtMutexForTracerVariable
          trAt,        \* where a thread is inside the object
          trWants,     \* the size of the trace a client adds
          trShutdown,  \* _bTracerShutdown
          trSets,
          trCount,     \* history: the traces accepted
          trWritten,   \* history: the traces written to files
          trGone,      \* history: the traces dropped by an error, by the switch or by their length
          trLostEver, trReported  \* history: the traces lost, those a trace tells of

trInitVars == <<trPc, trHeld, trCached>>
trPools == <<trMain, trAlloc, trManage, trManageAlloc, trIndex>>
trCaching == <<trCache, trBusy>>
trOptions == <<trOnFile, trSets>>
trHistory == <<trCount, trWritten, trGone, trLostEver, trReported>>
tracerVars == <<trInitVars, trPools, trLost, trCaching, trOptions, trVar, trAt, trWants,
                trShutdown, trHistory>>

Threads == TrClients \cup {"thread", "owner"}

TrInit ==
    /\ trPc = "PosixThread" /\ trHeld = <<>>
    /\ trCached \in BOOLEAN
    /\ trMain = <<>> /\ trAlloc = 0 /\ trManage = <<>> /\ trManageAlloc = 0 /\ trIndex = 1
    /\ trLost = 0 /\ trCache = <<>> /\ trBusy = 0
    /\ trOnFile = TRUE /\ trSets = 0
    /\ trVar = "none" /\ trAt = [a \in Threads |-> "out"] /\ trWants = [c \in TrClients |-> 0]
    /\ trShutdown = FALSE
    /\ trCount = 0 /\ trWritten = <<>> /\ trGone = {} /\ trLostEver = 0 /\ trReported = 0

(***************************************************************************)
(* init: a chain of acquisitions; whatever fails, the ones before it are   *)
(* given back.                                                             *)
(***************************************************************************)
Work == <<trLost, trCaching, trOptions, trVar, trAt, trWants, trShutdown, trHistory>>

Acquired(what, next) ==
    /\ trPc = what
    /\ \/ trHeld' = Append(trHeld, what) /\ trPc' = next
       \/ trHeld' = <<>> /\ trPc' = "refused"
    /\ UNCHANGED <<trCached, Work>>

Chain(what, next) == Acquired(what, next) /\ UNCHANGED trPools

InitPosixThread == Chain("PosixThread", "Traces")
\* The two pools, as large as the first overflow.
InitTraces ==
    /\ Acquired("Traces", "TracesToManage")
    /\ trAlloc' = TrOverflow
    /\ UNCHANGED <<trMain, trManage, trManageAlloc, trIndex>>
InitTracesToManage ==
    /\ Acquired("TracesToManage", "Directory")
    /\ trManageAlloc' = TrOverflow
    /\ UNCHANGED <<trMain, trAlloc, trManage, trIndex>>
InitDirectory == Chain("Directory", "FileName")
InitFileName == Chain("FileName", "LastPathName")
InitLastPathName == Chain("LastPathName", "InfoName")
InitInfoName == Chain("InfoName", "Link")
InitLink == Chain("Link", "LockName")
InitLockName == Chain("LockName", "Labels")
\* The labels of the levels, and the number of the last file is read.
InitLabels == Chain("Labels", "MutexForTraces")
InitMutexForTraces == Chain("MutexForTraces", "MutexForVariable")
InitMutexForVariable == Chain("MutexForVariable", "ready")

TrInitNext ==
    \/ InitPosixThread \/ InitTraces \/ InitTracesToManage \/ InitDirectory \/ InitFileName
    \/ InitLastPathName \/ InitInfoName \/ InitLink \/ InitLockName \/ InitLabels
    \/ InitMutexForTraces \/ InitMutexForVariable

(***************************************************************************)
(* addTrace                                                                *)
(***************************************************************************)
Usable == trPc \in {"ready", "cancel"}
Busy(c) == trAt[c] # "out"
At(a, from) == trAt[a] = from /\ trPc # "crashed"
Goes(a, to) == trAt' = [trAt EXCEPT ![a] = to]

\* The client reads the options, each under the mutex of the variables.
traceFiltered(c, level) ==
    /\ Usable /\ ~Busy(c) /\ trVar = "none" /\ trCount + trLostEver < TrMaxCalls
    /\ (~trOnFile /\ ~TrOnTTY) \/ level < TrLevel
    /\ UNCHANGED tracerVars

trace(c, level, size) ==
    /\ Usable /\ ~Busy(c) /\ trVar = "none" /\ trCount + trLostEver < TrMaxCalls
    /\ trOnFile \/ TrOnTTY
    /\ level >= TrLevel
    /\ Goes(c, "add")
    /\ trWants' = [trWants EXCEPT ![c] = size]
    /\ UNCHANGED <<trInitVars, trPools, trLost, trCaching, trOptions, trVar, trShutdown, trHistory>>

\* The pool grows when it is used up.
Grown(alloc, traces) == IF alloc <= Len(traces) THEN alloc + TrOverflow ELSE alloc

\* Under the mutex of the pool: the trace is added or counted as lost.
addTrace(c) ==
    /\ At(c, "add")
    /\ trAlloc' = Grown(trAlloc, trMain)
    /\ IF Len(trMain) < TrMaxTraces
       THEN /\ trMain' = Append(trMain, [id |-> trCount + 1, size |-> trWants[c]])
            /\ trCount' = trCount + 1
            /\ UNCHANGED <<trLost, trLostEver>>
       ELSE /\ trLost' = trLost + 1 /\ trLostEver' = trLostEver + 1
            /\ UNCHANGED <<trMain, trCount>>
    /\ Goes(c, IF trCached THEN "out" ELSE "populateFlush")
    /\ trWants' = [trWants EXCEPT ![c] = 0]
    /\ UNCHANGED <<trInitVars, trManage, trManageAlloc, trIndex, trCaching, trOptions, trVar,
                   trShutdown, trWritten, trGone, trReported>>

(***************************************************************************)
(* populateTraceFileCache, by the thread, by flushOfTraces and by finish   *)
(***************************************************************************)
Populating(a) == trAt[a] \in {"populate", "populateFlush"} /\ trPc # "crashed"
Remaining == SubSeq(trManage, trIndex, Len(trManage))
Ids(s) == {s[i].id : i \in 1..Len(s)}

\* The pools are exchanged.
Exchange(added) == trMain' = <<>> /\ trManage' = added

\* The trace that tells of the lost ones is added like any other trace: to a
\* pool that is full, or not at all when the options refuse it.
Reports == trLost > 0 /\ (trOnFile \/ TrOnTTY) /\ 0 >= TrLevel
Report ==
    IF Reports /\ Len(trMain) < TrMaxTraces
    THEN Append(trMain, [id |-> trCount + 1, size |-> 1]) ELSE trMain

\* Without a cache addTrace populates in its turn, and finds the same lost
\* traces: the calls never end, and the stack does.
PopulateRecurses(a) ==
    /\ Populating(a) /\ trVar = "none" /\ Reports /\ ~trCached
    /\ trPc' = "crashed" /\ trVar' = a
    /\ UNCHANGED <<trHeld, trCached, trPools, trLost, trCaching, trOptions, trAt, trWants,
                   trShutdown, trHistory>>

PopulateExchange(a) ==
    /\ Populating(a) /\ trVar = "none" /\ (Reports => trCached)
    /\ trVar' = a
    /\ Exchange(Report)
    /\ trReported' = trReported + (IF Report = trMain THEN 0 ELSE trLost)
    /\ trCount' = trCount + Len(Report) - Len(trMain)
    /\ trLost' = 0
    /\ trAlloc' = trManageAlloc
    /\ trManageAlloc' = IF Reports THEN Grown(trAlloc, trMain) ELSE trAlloc
    /\ trIndex' = 1
    /\ Goes(a, IF trAt[a] = "populate" THEN "perform" ELSE "performFlush")
    /\ UNCHANGED <<trInitVars, trCaching, trOptions, trWants, trShutdown, trWritten, trGone, trLostEver>>

Performing(a) == trAt[a] \in {"perform", "performFlush"} /\ trVar = a /\ trPc # "crashed"
\* What flushTraceFileCache does to a cache: it is written; it is written and
\* the file cannot be closed, compressed or copied; nothing can be opened or
\* written; the disk is full and the tracing to files ends.
Flushes(cache) ==
    IF ~trOnFile THEN {[ok |-> TRUE, left |-> <<>>, written |-> <<>>, on |-> FALSE]}
    ELSE {[ok |-> TRUE, left |-> <<>>, written |-> cache, on |-> TRUE],
          [ok |-> FALSE, left |-> <<>>, written |-> cache, on |-> TRUE],
          [ok |-> FALSE, left |-> cache, written |-> <<>>, on |-> TRUE],
          [ok |-> TRUE, left |-> <<>>, written |-> <<>>, on |-> FALSE],
          [ok |-> FALSE, left |-> cache, written |-> <<>>, on |-> FALSE]}

\* Mutant: a cache that was flushed is kept.
FlushedKeeps(f, cache, bytes, rest) ==
    /\ trWritten' = trWritten \o f.written
    /\ trGone' = trGone \cup (Ids(cache) \ (Ids(f.left) \cup Ids(f.written)))
                       \cup (IF f.ok THEN {} ELSE Ids(rest))
    /\ trOnFile' = f.on
    /\ trCache' = (IF f.ok THEN cache ELSE f.left) /\ trBusy' = IF trCache' = <<>> THEN 0 ELSE bytes

\* bytes is the length of the cache, rest is what an error leaves in the secondary pool: it is lost.
Flushed(f, cache, bytes, rest) ==
    /\ trWritten' = trWritten \o f.written
    /\ trGone' = trGone \cup (Ids(cache) \ (Ids(f.left) \cup Ids(f.written)))
                       \cup (IF f.ok THEN {} ELSE Ids(rest))
    /\ trOnFile' = f.on
    /\ trCache' = f.left /\ trBusy' = IF f.left = <<>> THEN 0 ELSE bytes

\* A client only returns.
Done(a, to) == IF a \in TrClients THEN "out" ELSE to

\* Mutant: an error leaves the mutex locked.
LeavesLocked(a, ok) ==
    /\ IF ok THEN trVar' = "none" ELSE UNCHANGED trVar
    /\ trManage' = <<>> /\ trIndex' = 1
    /\ Goes(a, IF ~ok THEN Done(a, "failed")
               ELSE IF trAt[a] = "perform" THEN "populated" ELSE "flush")

\* The end of populateTraceFileCache: the mutex is released, and nobody looks
\* again at what an error has left in the secondary pool.
Leaves(a, ok) ==
    /\ trVar' = "none" /\ trManage' = <<>> /\ trIndex' = 1
    /\ Goes(a, IF ~ok THEN Done(a, "failed")
               ELSE IF trAt[a] = "perform" THEN "populated" ELSE "flush")

PerformOther == UNCHANGED <<trInitVars, trMain, trAlloc, trManageAlloc, trLost, trSets, trWants, trShutdown, trCount, trLostEver, trReported>>

\* A trace longer than the cache is refused, and the next one is taken.
PerformTooLong(a) ==
    /\ Performing(a) /\ trIndex <= Len(trManage) /\ trManage[trIndex].size > TrCacheSize
    /\ trGone' = trGone \cup {trManage[trIndex].id}
    /\ trIndex' = trIndex + 1
    /\ UNCHANGED <<trManage, trCaching, trOnFile, trVar, trAt, trWritten>> /\ PerformOther

PerformFits(a) ==
    /\ Performing(a) /\ trIndex <= Len(trManage) /\ trManage[trIndex].size <= TrCacheSize
    /\ trBusy + trManage[trIndex].size < TrCacheSize
    /\ trCache' = Append(trCache, trManage[trIndex]) /\ trBusy' = trBusy + trManage[trIndex].size
    /\ trIndex' = trIndex + 1
    /\ UNCHANGED <<trManage, trOnFile, trVar, trAt, trWritten, trGone>> /\ PerformOther

\* The period of the file is over after the trace was taken to the cache.
PerformPeriod(a) ==
    /\ Performing(a) /\ trIndex <= Len(trManage) /\ trManage[trIndex].size <= TrCacheSize
    /\ trBusy + trManage[trIndex].size < TrCacheSize
    /\ \E f \in Flushes(Append(trCache, trManage[trIndex])) :
          /\ Flushed(f, Append(trCache, trManage[trIndex]), trBusy + trManage[trIndex].size, Tail(Remaining))
          /\ IF f.ok THEN trIndex' = trIndex + 1 /\ UNCHANGED <<trManage, trVar, trAt>>
             ELSE Leaves(a, FALSE)
    /\ PerformOther

\* The cache is flushed for the trace, which is then taken to it; when the flush
\* fails the trace and the rest of the pool are lost.
PerformFlushes(a) ==
    /\ Performing(a) /\ trIndex <= Len(trManage) /\ trManage[trIndex].size <= TrCacheSize
    /\ trBusy + trManage[trIndex].size >= TrCacheSize
    /\ \E f \in Flushes(trCache) :
          /\ f.ok
          /\ trWritten' = trWritten \o f.written
          /\ trGone' = trGone \cup (Ids(trCache) \ Ids(f.written))
          /\ trOnFile' = f.on
          /\ trCache' = <<trManage[trIndex]>> /\ trBusy' = trManage[trIndex].size
          /\ trIndex' = trIndex + 1
    /\ UNCHANGED <<trManage, trVar, trAt>> /\ PerformOther

PerformFlushFails(a) ==
    /\ Performing(a) /\ trIndex <= Len(trManage) /\ trManage[trIndex].size <= TrCacheSize
    /\ trBusy + trManage[trIndex].size >= TrCacheSize
    /\ \E f \in Flushes(trCache) : ~f.ok /\ Flushed(f, trCache, trBusy, Remaining)
    /\ Leaves(a, FALSE)
    /\ PerformOther

performTrace(a) ==
    \/ PerformTooLong(a) \/ PerformFits(a) \/ PerformPeriod(a) \/ PerformFlushes(a)
    \/ PerformFlushFails(a)

PopulateEnds(a) ==
    /\ Performing(a) /\ trIndex > Len(trManage)
    /\ Leaves(a, TRUE)
    /\ UNCHANGED <<trCaching, trOnFile, trWritten, trGone>> /\ PerformOther

\* Without traces the cache is flushed when the period of the file is over.
PopulateIdle(a) ==
    /\ Performing(a) /\ trManage = <<>>
    /\ \E f \in Flushes(trCache) : Flushed(f, trCache, trBusy, <<>>) /\ Leaves(a, f.ok)
    /\ PerformOther

\* flushOfTraces goes on with the cache; the thread populates it once more, as
\* it does after every command.
flushTraceFileCache(a) ==
    /\ At(a, "flush") /\ trVar = "none"
    /\ \E f \in Flushes(trCache) :
          /\ Flushed(f, trCache, trBusy, <<>>)
          /\ Goes(a, IF ~f.ok THEN Done(a, "failed")
                     ELSE IF a = "thread" THEN "populate" ELSE Done(a, "populated"))
    /\ UNCHANGED <<trManage, trIndex, trVar>> /\ PerformOther

Steps(a) ==
    \/ PopulateRecurses(a) \/ PopulateExchange(a) \/ performTrace(a) \/ PopulateEnds(a) \/ PopulateIdle(a)
    \/ flushTraceFileCache(a)

(***************************************************************************)
(* The options, the thread and its end                                     *)
(***************************************************************************)
Setting == Usable /\ trVar = "none" /\ trSets < TrMaxSets /\ trSets' = trSets + 1
SetOther == UNCHANGED <<trInitVars, trPools, trLost, trCaching, trVar, trAt, trWants, trShutdown, trHistory>>

setTraceOnFile(b) == Setting /\ trOnFile' = b /\ SetOther

ThreadOther == UNCHANGED <<trInitVars, trPools, trLost, trCaching, trOptions, trVar, trWants, trHistory>>

StartTracer ==
    /\ trPc = "ready" /\ trAt["thread"] = "out"
    /\ Goes("thread", "begin") /\ UNCHANGED trShutdown /\ ThreadOther

\* run forgets an earlier request to stop; the server socket may fail.
RunBegins ==
    /\ At("thread", "begin") /\ trVar = "none"
    /\ trShutdown' = FALSE
    /\ \E at \in {"sleep", "ended"} : Goes("thread", at)
    /\ ThreadOther

\* After the sleep nobody connects, or somebody sends a command; an unknown one, or a line
\* that does not come in time, ends the thread.
NoCommand ==
    /\ At("thread", "sleep") /\ Goes("thread", "populate") /\ UNCHANGED trShutdown /\ ThreadOther
FlushCommand ==
    /\ At("thread", "sleep") /\ Goes("thread", "populateFlush") /\ UNCHANGED trShutdown /\ ThreadOther
SetCommand ==
    /\ At("thread", "sleep") /\ Setting
    /\ \E b \in BOOLEAN : trOnFile' = b
    /\ Goes("thread", "populate")
    /\ UNCHANGED <<trInitVars, trPools, trLost, trCaching, trVar, trWants, trShutdown, trHistory>>
BadCommand ==
    /\ At("thread", "sleep") /\ Goes("thread", "ended") /\ UNCHANGED trShutdown /\ ThreadOther

RunLoops ==
    /\ At("thread", "populated") /\ trVar = "none"
    /\ Goes("thread", IF trShutdown THEN "ended" ELSE "sleep")
    /\ UNCHANGED trShutdown /\ ThreadOther

RunFails ==
    /\ At("thread", "failed") /\ Goes("thread", "ended") /\ UNCHANGED trShutdown /\ ThreadOther

runTracer ==
    \/ RunBegins \/ NoCommand \/ FlushCommand \/ SetCommand \/ BadCommand
    \/ RunLoops \/ RunFails \/ Steps("thread")

ThreadAlive == trAt["thread"] \notin {"out", "ended", "cancelled"} /\ trPc # "crashed"

CancelTracer ==
    /\ trPc = "ready" /\ trAt["thread"] # "out" /\ trVar = "none"
    /\ trPc' = "cancel" /\ trShutdown' = TRUE
    /\ UNCHANGED <<trHeld, trCached, trPools, trLost, trCaching, trOptions, trVar, trAt, trWants, trHistory>>

\* After twice the period the thread is ended where it is: it keeps the mutex.
CancelEnds ==
    /\ trPc = "cancel" /\ trPc' = "cancelled"
    /\ IF ThreadAlive THEN Goes("thread", "cancelled") ELSE UNCHANGED trAt
    /\ UNCHANGED <<trHeld, trCached, trPools, trLost, trCaching, trOptions, trVar, trWants,
                   trShutdown, trHistory>>

\* finish, when no client is inside any more; the owner flushes first or not.
FinishBegins ==
    /\ trPc = "cancelled" \/ (trPc = "ready" /\ ~ThreadAlive)
    /\ \A c \in TrClients : ~Busy(c)
    /\ trPc' = "finish"
    /\ \E flush \in BOOLEAN : Goes("owner", IF flush THEN "populateFlush" ELSE "unflushed")
    /\ UNCHANGED <<trHeld, trCached, trPools, trLost, trCaching, trOptions, trVar, trWants,
                   trShutdown, trHistory>>

\* A failure of the flush is only printed; the file cannot be closed or not.
finishTracer ==
    /\ trPc = "finish" /\ trAt["owner"] \in {"populated", "unflushed", "failed"}
    /\ \/ trPc' = "finished" /\ trHeld' = <<>>
       \/ trPc' = "notClosed" /\ UNCHANGED trHeld
    /\ UNCHANGED <<trCached, trPools, trLost, trCaching, trOptions, trVar, trAt, trWants, trShutdown, trHistory>>

TrNext ==
    \/ TrInitNext
    \/ \E c \in TrClients :
          \/ \E l \in 0..TrLevel : traceFiltered(c, l) \/ \E s \in TrSizes : trace(c, l, s)
          \/ addTrace(c) \/ Steps(c)
    \/ \E b \in BOOLEAN : setTraceOnFile(b)
    \/ StartTracer \/ runTracer \/ CancelTracer \/ CancelEnds
    \/ FinishBegins \/ Steps("owner") \/ finishTracer

TrFairness ==
    /\ WF_tracerVars(runTracer) /\ WF_tracerVars(CancelEnds)
    /\ WF_tracerVars(Steps("owner")) /\ WF_tracerVars(finishTracer)
    /\ \A c \in TrClients : SF_tracerVars(addTrace(c) \/ Steps(c))

(***************************************************************************)
(* Properties                                                              *)
(***************************************************************************)
TrTypeOK ==
    /\ trVar \in Threads \cup {"none"}
    /\ Len(trMain) <= trAlloc /\ Len(trManage) <= trManageAlloc
    /\ trIndex \in 1..(Len(trManage) + 1)
    /\ trBusy \in 0..TrCacheSize /\ (trBusy = 0 <=> trCache = <<>>)

\* A trace that was accepted is written once, or is in exactly one of the
\* cache, the secondary and the main pool, or an error, the switch or its own
\* length has dropped it; and what is written, cached and pooled is in the order
\* in which the clients traced, whoever exchanges the pools.
TracesInOrder ==
    LET all == trWritten \o trCache \o Remaining \o trMain
    IN /\ \A i, j \in 1..Len(all) : i < j => all[i].id < all[j].id
       /\ Ids(all) \cup trGone = 1..trCount
       /\ Ids(all) \cap trGone = {}

\* finish with a flush that works leaves no trace in the pools or in the cache.
FinishFlushes ==
    trPc \in {"finish", "finished"} /\ trAt["owner"] = "populated" =>
        trMain = <<>> /\ Remaining = <<>> /\ trCache = <<>>

\* Whatever part of init fails, everything acquired before it is given back,
\* and only a tracer that has all of it is used.
InitAllOrNothing ==
    /\ trPc = "refused" => trHeld = <<>>
    /\ trPc \in {"ready", "cancel"} => Len(trHeld) = 12

\* While clients trace, the thread exchanges the pools and the disk fails, traces reach the file in order and once,
\* finish flushes what is left, and an init that fails gives back all it took.
TracesKept == TrTypeOK /\ TracesInOrder /\ FinishFlushes /\ InitAllOrNothing

\* A trace leaves the pool of the clients while the thread runs, unless the
\* thread ends: an unknown command, an error of a file or a cancel ends it.
TracesMove ==
    (trMain # <<>> /\ ThreadAlive) ~> (trMain = <<>> \/ ~ThreadAlive)

\* finish returns, unless cancel ended the thread while it held the mutex.
FinishReturns == trPc = "finish" ~> (trPc # "finish" \/ trVar = "thread")

\* The description of the class says that the number of the traces that were
\* lost is kept: what is no longer counted was told by a trace.
LostAreReported == trLostEver = trLost + trReported
=============================================================================
