-------------------------- MODULE HTTPCacheManager --------------------------
(***************************************************************************)
(* The cache of HTTPCacheManager/src.  A client asks for a URL, the thread *)
(* of the manager gives the URLs that wait to the threads that download    *)
(* them; a thread that has saved everything makes the .complete file of    *)
(* the URL.  A key stands for a URL for a limited time.                    *)
(***************************************************************************)
EXTENDS Integers, Sequences, FiniteSets

List == INSTANCE SequencesExt  \* the vectors of the standard library: ToSet

CONSTANTS CmUris, CmKeys, CmClients,
          CmRequests,     \* the HTTPRequest records, _ulHTTPRequestsQueueSize of them
          CmSlots,        \* 1.._ulMaxConcurrentHTTPRequest
          NoUri, NoKey,
          CmRetention,    \* _ulRetentionInSecondsForHTTPRequestKeys
          CmPatience,     \* the 10 seconds of cancel
          CmMaxTime,      \* a bound on the clock
          CmMaxCalls      \* a bound on the calls of the clients

ASSUME CmAssumption ==
    /\ CmSlots \in Nat /\ CmRetention \in Nat /\ CmPatience \in Nat
    /\ CmMaxTime \in Nat /\ CmMaxCalls \in Nat
    /\ IsFiniteSet(CmRequests)

VARIABLES cmFree,     \* _vAvailableHTTPRequests
          cmWaiting,  \* _vWaitingQueueHTTPRequests
          cmUri,      \* the URI of a request record
          cmSlot,     \* the downloading threads: the URI and whether it runs
          cmDone,     \* the URIs with a .complete file
          cmMap,      \* _phmHTTPRequestKeys: the URI, whether it succeeded, the time
          cmByTime,   \* _mmHTTPRequestKeys
          cmClient,   \* a call of a client
          cmThread, cmShutdown, cmOwner,
          cmNow, cmAsked, cmCalls

cmVars == <<cmFree, cmWaiting, cmUri, cmSlot, cmDone, cmMap, cmByTime, cmClient, cmThread,
            cmShutdown, cmOwner, cmNow, cmAsked, cmCalls>>

Resting == [at |-> "none", uri |-> NoUri, key |-> NoKey]
Sorted == CHOOSE s \in [1..Cardinality(CmRequests) -> CmRequests] : List!ToSet(s) = CmRequests

CmInit ==
    /\ cmFree = Sorted /\ cmWaiting = <<>>
    /\ cmUri = [r \in CmRequests |-> NoUri]
    /\ cmSlot = [i \in 1..CmSlots |-> [uri |-> NoUri, running |-> FALSE]]
    /\ cmDone = {}
    /\ cmMap = <<>> /\ cmByTime = <<>>
    /\ cmClient = [c \in CmClients |-> Resting]
    /\ cmThread = "none" /\ cmShutdown = FALSE /\ cmOwner = "idle"
    /\ cmNow = 0 /\ cmAsked = 0 /\ cmCalls = 0

Control == <<cmThread, cmShutdown, cmOwner, cmNow, cmAsked>>

(***************************************************************************)
(* The clients                                                             *)
(***************************************************************************)
\* InsertWithoutDuplication: the key that is there is kept, in both maps.
saveHTTPRequestKey(key, uri, success) ==
    IF key = NoKey \/ key \in DOMAIN cmMap THEN UNCHANGED <<cmMap, cmByTime>>
    ELSE /\ cmMap' = [k \in DOMAIN cmMap \cup {key} |->
                        IF k = key THEN [uri |-> uri, success |-> success, at |-> cmNow]
                        ELSE cmMap[k]]
         /\ cmByTime' = Append(cmByTime, key)

Named == {cmSlot[i].uri : i \in 1..CmSlots}
Waits == {cmUri[cmWaiting[i]] : i \in 1..Len(cmWaiting)}

\* Mutant: a URI that is being downloaded is queued again.
EnqueueWaitingOnly(uri, key) ==
    \/ /\ uri \in Waits \/ cmFree = <<>>
       /\ UNCHANGED <<cmFree, cmWaiting, cmUri, cmMap, cmByTime>>
    \/ /\ uri \notin Waits /\ cmFree # <<>>
       /\ cmUri' = [cmUri EXCEPT ![Head(cmFree)] = uri]
       /\ cmFree' = Tail(cmFree)
       /\ cmWaiting' = Append(cmWaiting, Head(cmFree))
       /\ saveHTTPRequestKey(key, uri, TRUE)

\* The part under the mutex: a URI that a thread has, or had last, and one
\* that waits are not asked for again.
Enqueue(uri, key) ==
    \/ /\ uri \in Named \cup Waits
       /\ saveHTTPRequestKey(key, uri, TRUE)
       /\ UNCHANGED <<cmFree, cmWaiting, cmUri>>
    \/ /\ uri \notin Named \cup Waits /\ cmFree = <<>>
       /\ UNCHANGED <<cmFree, cmWaiting, cmUri, cmMap, cmByTime>>
    \/ /\ uri \notin Named \cup Waits /\ cmFree # <<>>
       /\ cmUri' = [cmUri EXCEPT ![Head(cmFree)] = uri]
       /\ cmFree' = Tail(cmFree)
       /\ cmWaiting' = Append(cmWaiting, Head(cmFree))
       /\ saveHTTPRequestKey(key, uri, TRUE)

\* What the call returns when it has not refused the request.
Answered(uri) == uri \in Named \cup Waits \/ cmFree # <<>>

\* getLocalPathNameAndCacheContent looks for the .complete file before it
\* takes the mutex.
LookInCache(c, uri, key) ==
    /\ cmClient[c] = Resting /\ cmCalls < CmMaxCalls
    /\ cmCalls' = cmCalls + 1
    /\ IF uri \in cmDone
       THEN saveHTTPRequestKey(key, uri, TRUE) /\ UNCHANGED cmClient
       ELSE /\ cmClient' = [cmClient EXCEPT ![c] = [at |-> "lock", uri |-> uri, key |-> key]]
            /\ UNCHANGED <<cmMap, cmByTime>>
    /\ UNCHANGED <<cmFree, cmWaiting, cmUri, cmSlot, cmDone, Control>>

CacheContent(c) ==
    /\ cmClient[c].at = "lock"
    /\ Enqueue(cmClient[c].uri, cmClient[c].key)
    /\ cmClient' = [cmClient EXCEPT ![c] =
                      IF Answered(@.uri) THEN [@ EXCEPT !.at = "accepted"] ELSE Resting]
    /\ UNCHANGED <<cmSlot, cmDone, Control, cmCalls>>

ClientGoes(c) ==
    /\ cmClient[c].at = "accepted"
    /\ cmClient' = [cmClient EXCEPT ![c] = Resting]
    /\ UNCHANGED <<cmFree, cmWaiting, cmUri, cmSlot, cmDone, cmMap, cmByTime, Control, cmCalls>>

\* getLocalPathNameUsingHTTPRequestKey holds the mutex all the time.
UseKey(c, key) ==
    /\ cmClient[c] = Resting /\ cmCalls < CmMaxCalls
    /\ key \in DOMAIN cmMap /\ cmMap[key].success
    /\ cmCalls' = cmCalls + 1
    /\ LET uri == cmMap[key].uri IN
       IF uri \in cmDone THEN UNCHANGED <<cmFree, cmWaiting, cmUri, cmMap, cmByTime, cmClient>>
       ELSE /\ Enqueue(uri, key)
            /\ cmClient' = [cmClient EXCEPT ![c] =
                              IF Answered(uri) THEN [at |-> "accepted", uri |-> uri, key |-> key]
                              ELSE Resting]
    /\ UNCHANGED <<cmSlot, cmDone, Control>>

\* A key that is there already is not marked.
markHTTPRequestKeyAsFailed(c, key) ==
    /\ cmClient[c] = Resting /\ cmCalls < CmMaxCalls
    /\ cmCalls' = cmCalls + 1
    /\ saveHTTPRequestKey(key, NoUri, FALSE)
    /\ UNCHANGED <<cmFree, cmWaiting, cmUri, cmSlot, cmDone, cmClient, Control>>

(***************************************************************************)
(* The thread of the manager                                               *)
(***************************************************************************)
\* The keys at the head of the multimap that are too old.
TooOld(i) == \A j \in 1..i : cmNow - cmMap[cmByTime[j]].at > CmRetention

HTTPRequestKeysRetention ==
    LET old == {i \in 0..Len(cmByTime) : TooOld(i)}
        n == CHOOSE i \in old : \A j \in old : j <= i
        kept == SubSeq(cmByTime, n + 1, Len(cmByTime))
    IN cmByTime' = kept /\ cmMap' = [k \in List!ToSet(kept) |-> cmMap[k]]

\* The threads that are not running, and their turns: the first one is the
\* first to get a request.
IdleSlots == {i \in 1..CmSlots : ~cmSlot[i].running}
Turn(i) == Cardinality({k \in IdleSlots : k <= i})

\* The head of the queue goes to the first idle thread, the next one to the
\* next; init or start of a thread may fail, which ends the pass.
Assign ==
    LET idle == Cardinality(IdleSlots)
        most == IF idle <= Len(cmWaiting) THEN idle ELSE Len(cmWaiting)
    IN \E n \in 0..most, failed \in {"no", "init", "start"} :
          /\ failed = "no" => n = most
          /\ failed # "no" => n < most
          /\ cmSlot' = [i \in 1..CmSlots |->
                CASE i \in IdleSlots /\ Turn(i) <= n ->
                        [uri |-> cmUri[cmWaiting[Turn(i)]], running |-> TRUE]
                  [] i \in IdleSlots /\ Turn(i) = n + 1 /\ failed # "no" ->
                        [uri |-> IF failed = "start" THEN cmUri[cmWaiting[n + 1]] ELSE NoUri,
                         running |-> FALSE]
                  [] OTHER -> cmSlot[i]]
          /\ cmWaiting' = SubSeq(cmWaiting, n + 1, Len(cmWaiting))
          /\ cmFree' = cmFree \o SubSeq(cmWaiting, 1, n)

StartManager ==
    /\ cmThread = "none" /\ cmOwner = "idle"
    /\ cmThread' = "begin"
    /\ UNCHANGED <<cmFree, cmWaiting, cmUri, cmSlot, cmDone, cmMap, cmByTime, cmClient,
                   cmShutdown, cmOwner, cmNow, cmAsked, cmCalls>>

ManagerBegins ==
    /\ cmThread = "begin"
    /\ cmThread' = "loop" /\ cmShutdown' = FALSE
    /\ UNCHANGED <<cmFree, cmWaiting, cmUri, cmSlot, cmDone, cmMap, cmByTime, cmClient,
                   cmOwner, cmNow, cmAsked, cmCalls>>

\* One turn of the loop, under the mutex but for the sleep and the question
\* whether to stop.
ManagerPass ==
    /\ cmThread = "loop"
    /\ HTTPRequestKeysRetention
    /\ IF cmWaiting = <<>> THEN UNCHANGED <<cmFree, cmWaiting, cmSlot>> ELSE Assign
    /\ cmThread' = "ask"
    /\ UNCHANGED <<cmUri, cmDone, cmClient, cmShutdown, cmOwner, cmNow, cmAsked, cmCalls>>

ManagerAsks ==
    /\ cmThread = "ask"
    /\ cmThread' = IF cmShutdown THEN "ended" ELSE "loop"
    /\ UNCHANGED <<cmFree, cmWaiting, cmUri, cmSlot, cmDone, cmMap, cmByTime, cmClient,
                   cmShutdown, cmOwner, cmNow, cmAsked, cmCalls>>

\* A download ends, with the .complete file or with an error.
DownloadEnds(i) ==
    /\ cmSlot[i].running
    /\ cmSlot' = [cmSlot EXCEPT ![i].running = FALSE]
    /\ \/ cmDone' = cmDone \cup {cmSlot[i].uri}
       \/ UNCHANGED cmDone
    /\ UNCHANGED <<cmFree, cmWaiting, cmUri, cmMap, cmByTime, cmClient, Control, cmCalls>>

CancelManager ==
    /\ cmOwner = "idle" /\ cmThread # "none" /\ cmNow + CmPatience <= CmMaxTime
    /\ cmOwner' = "cancel" /\ cmShutdown' = TRUE /\ cmAsked' = cmNow
    /\ UNCHANGED <<cmFree, cmWaiting, cmUri, cmSlot, cmDone, cmMap, cmByTime, cmClient,
                   cmThread, cmNow, cmCalls>>

ManagerCancelled ==
    /\ cmOwner = "cancel"
    /\ cmThread \notin {"begin", "loop", "ask"} \/ cmNow - cmAsked >= CmPatience
    /\ cmOwner' = "cancelled"
    /\ cmThread' = IF cmThread \in {"begin", "loop", "ask"} THEN "cancelled" ELSE cmThread
    /\ UNCHANGED <<cmFree, cmWaiting, cmUri, cmSlot, cmDone, cmMap, cmByTime, cmClient,
                   cmShutdown, cmNow, cmAsked, cmCalls>>

CmTick ==
    /\ cmNow < CmMaxTime
    /\ cmNow' = cmNow + 1
    /\ UNCHANGED <<cmFree, cmWaiting, cmUri, cmSlot, cmDone, cmMap, cmByTime, cmClient,
                   cmThread, cmShutdown, cmOwner, cmAsked, cmCalls>>

CmNext ==
    \/ \E c \in CmClients, u \in CmUris, k \in CmKeys \cup {NoKey} : LookInCache(c, u, k)
    \/ \E c \in CmClients : CacheContent(c) \/ ClientGoes(c)
    \/ \E c \in CmClients, k \in CmKeys : UseKey(c, k) \/ markHTTPRequestKeyAsFailed(c, k)
    \/ StartManager \/ ManagerBegins \/ ManagerPass \/ ManagerAsks
    \/ \E i \in 1..CmSlots : DownloadEnds(i)
    \/ CancelManager \/ ManagerCancelled \/ CmTick

CmSpec == CmInit /\ [][CmNext]_cmVars

(***************************************************************************)
(* Properties                                                              *)
(***************************************************************************)
CmTypeOK ==
    /\ List!ToSet(cmFree) \cup List!ToSet(cmWaiting) = CmRequests
    /\ cmUri \in [CmRequests -> CmUris \cup {NoUri}]
    /\ cmSlot \in [1..CmSlots -> [uri : CmUris \cup {NoUri}, running : BOOLEAN]]
    /\ cmThread \in {"none", "begin", "loop", "ask", "ended", "cancelled"}

\* A record of a request is free or waits, and once: the clients that queue
\* and the thread that gives the record back when a download starts never
\* lose or duplicate one.
RequestsConserved ==
    Len(cmFree) + Len(cmWaiting) = Cardinality(CmRequests)

\* Two threads never write the same file of the cache: no URI is downloaded
\* by two threads, or waits while it is downloaded, however the calls of the
\* clients, the passes of the manager and the ends of the downloads interleave.
OneDownloadPerUri ==
    /\ \A i, j \in 1..CmSlots : cmSlot[i].running /\ cmSlot[j].running /\ i # j =>
          cmSlot[i].uri # cmSlot[j].uri
    /\ \A i \in 1..CmSlots : cmSlot[i].running => cmSlot[i].uri \notin Waits
    /\ \A i, j \in 1..Len(cmWaiting) : i # j => cmUri[cmWaiting[i]] # cmUri[cmWaiting[j]]

\* The hash map and the multimap hold the same keys (the code looks for the
\* contrary and only traces it), and the multimap holds them by age.
KeysConsistent ==
    /\ List!ToSet(cmByTime) = DOMAIN cmMap /\ Len(cmByTime) = Cardinality(DOMAIN cmMap)
    /\ \A i, j \in 1..Len(cmByTime) : i < j => cmMap[cmByTime[i]].at <= cmMap[cmByTime[j]].at

\* The cache under the calls of its clients, its thread and its downloads: no
\* request record is lost, no URL is downloaded twice at a time, and the map
\* and the list of the keys name the same contents.
CacheConsistent == CmTypeOK /\ RequestsConserved /\ OneDownloadPerUri /\ KeysConsistent

\* The header of getLocalPathNameAndCacheContent says that a URL that is not
\* present is downloaded: when the call accepts it, it waits, is being
\* downloaded or is complete.
AcceptedIsDownloaded ==
    [][\A c \in CmClients : cmClient[c].at # "accepted" /\ cmClient'[c].at = "accepted" =>
          LET u == cmClient'[c].uri IN
          \/ u \in cmDone
          \/ \E i \in 1..CmSlots : cmSlot[i].uri = u /\ cmSlot[i].running
          \/ \E i \in 1..Len(cmWaiting') : cmUri'[cmWaiting'[i]] = u]_cmVars
=============================================================================
