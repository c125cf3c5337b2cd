----------------------------- MODULE HttpThreads -----------------------------
(***************************************************************************)
(* The threads of WebTools/src: a get over http into a file (HttpGetThread,*)
(* SaveHttpGetThread and the CacheSaveHttpGetThread of the cache), the     *)
(* object that is initialized and run again and again; the http server,    *)
(* whose run serves one client after the other with buffers it initializes *)
(* once; and HttpPostThread, which posts over a socket of its own or over  *)
(* the caller's.  Every call may fail.                                     *)
(***************************************************************************)
EXTENDS Integers, Sequences, FiniteSets

CONSTANTS MaxGets,     \* a bound on the gets of the object
          BodyLengths, \* the Content-Lengths a server announces
          NoLength,    \* no Content-Length: -1 for chunkRead
          MaxBody      \* a bound on the bytes of a body

ASSUME HttpGetAssumption == MaxGets \in Nat /\ BodyLengths \subseteq Nat /\ MaxBody \in Nat

VARIABLES hgPc,       \* where the object is
          hgBuffers,  \* the buffers initialized, in their order
          hgThread,   \* whether PosixThread is initialized
          hgSaving,   \* _sStatus of SaveHttpGetThread
          hgSocket,   \* whether csClientSocket is connected
          hgFd,       \* whether _iDestFileDescriptor is open
          hgFile,     \* the bytes of the destination file, NoFile without one
          hgSaved,    \* _llBufferDataSaved
          hgLength,   \* the Content-Length
          hgReceived, \* history: the bytes of the body received by this get
          hgMarker,   \* the .complete file
          hgGets      \* the gets begun

getVars == <<hgPc, hgBuffers, hgThread, hgSaving, hgSocket, hgFd, hgFile, hgSaved,
             hgLength, hgReceived, hgMarker, hgGets>>

NoFile == -1
Buffers == <<"URI", "Request", "Header", "Body", "Cookie", "SetCookie", "Location">>

GetInit ==
    /\ hgPc = "idle"
    /\ hgBuffers = <<>> /\ hgThread = FALSE /\ hgSaving = FALSE
    /\ hgSocket = FALSE /\ hgFd = FALSE
    /\ hgFile = NoFile /\ hgSaved = 0 /\ hgLength = NoLength /\ hgReceived = 0
    /\ hgMarker = FALSE /\ hgGets = 0

OnDisk == <<hgFile, hgSaved, hgLength, hgReceived, hgMarker>>

(***************************************************************************)
(* init and finish                                                         *)
(***************************************************************************)
\* The next get has the destination of the last one or another.
Destination ==
    \/ UNCHANGED <<hgFile, hgMarker>>
    \/ hgFile' = NoFile /\ hgMarker' = FALSE

\* Mutant: init counts on with the bytes of the last get.
BeginInitCounts ==
    /\ hgPc = "idle" /\ hgGets < MaxGets
    /\ hgGets' = hgGets + 1
    /\ hgReceived' = 0
    /\ hgPc' = "URI"
    /\ hgSaving' = FALSE
    /\ hgThread' = IF hgSaving THEN FALSE ELSE hgThread
    /\ hgBuffers' = IF hgSaving THEN <<>> ELSE hgBuffers
    /\ Destination
    /\ UNCHANGED <<hgSaved, hgSocket, hgFd, hgLength>>

\* An object that is still initialized is finished first.
BeginInit ==
    /\ hgPc = "idle" /\ hgGets < MaxGets
    /\ hgGets' = hgGets + 1
    /\ hgSaved' = 0 /\ hgReceived' = 0
    /\ hgPc' = "URI"
    /\ hgSaving' = FALSE
    /\ hgThread' = IF hgSaving THEN FALSE ELSE hgThread
    /\ hgBuffers' = IF hgSaving THEN <<>> ELSE hgBuffers
    /\ Destination
    /\ UNCHANGED <<hgSocket, hgFd, hgLength>>

\* A failing call of init finishes the buffers before it.
UndoBuffers ==
    /\ hgBuffers' = <<>>
    /\ hgPc' = "idle"
    /\ UNCHANGED <<hgThread, hgSaving, hgSocket, hgFd, OnDisk, hgGets>>

InitBuffer(b, next) ==
    \/ /\ hgPc = b
       /\ hgBuffers' = Append(hgBuffers, b)
       /\ hgPc' = next
       /\ UNCHANGED <<hgThread, hgSaving, hgSocket, hgFd, OnDisk, hgGets>>
    \/ hgPc = b /\ UndoBuffers

InitURI == InitBuffer("URI", "Request")
InitRequest == InitBuffer("Request", "headers")

\* The lines of the request are appended one by one.
AppendHeaders ==
    \/ /\ hgPc = "headers" /\ hgPc' = "Header"
       /\ UNCHANGED <<hgBuffers, hgThread, hgSaving, hgSocket, hgFd, OnDisk, hgGets>>
    \/ hgPc = "headers" /\ UndoBuffers

InitHeaderResponse == InitBuffer("Header", "Body")
InitBodyResponse == InitBuffer("Body", "Cookie")
InitCookieResponse == InitBuffer("Cookie", "SetCookie")
InitSetCookieResponse == InitBuffer("SetCookie", "Location")
InitLocationResponse == InitBuffer("Location", "thread")

InitGetThread ==
    \/ /\ hgPc = "thread" /\ ~hgThread
       /\ hgThread' = TRUE /\ hgSaving' = TRUE /\ hgPc' = "ready"
       /\ UNCHANGED <<hgBuffers, hgSocket, hgFd, OnDisk, hgGets>>
    \/ hgPc = "thread" /\ UndoBuffers

FinishGet ==
    /\ hgPc \in {"ready", "ended", "closingFailed"}
    /\ hgThread' = FALSE /\ hgBuffers' = <<>> /\ hgSaving' = FALSE
    /\ hgPc' = "idle"
    /\ UNCHANGED <<hgSocket, hgFd, OnDisk, hgGets>>

\* The caller lets the object be and initializes it again for another get.
LeaveGet ==
    /\ hgPc \in {"ended", "closingFailed"} /\ hgPc' = "idle"
    /\ UNCHANGED <<hgBuffers, hgThread, hgSaving, hgSocket, hgFd, OnDisk, hgGets>>

(***************************************************************************)
(* run                                                                     *)
(***************************************************************************)
RunOther == UNCHANGED <<hgBuffers, hgThread, hgSaving, hgGets>>

\* The socket is closed and closingHttpGet is called with the error.
RunFails ==
    /\ hgSocket' = FALSE
    /\ hgPc' = "failing"
    /\ UNCHANGED <<hgFd, OnDisk>> /\ RunOther

Connect ==
    /\ hgPc = "ready"
    /\ \/ hgSocket' = TRUE /\ hgPc' = "options" /\ UNCHANGED <<hgFd, OnDisk>> /\ RunOther
       \/ RunFails

SetOptions ==
    /\ hgPc = "options"
    /\ \/ hgPc' = "send" /\ UNCHANGED <<hgSocket, hgFd, OnDisk>> /\ RunOther
       \/ RunFails

SetBuffers ==
    /\ hgPc = "send"
    /\ \/ hgPc' = "request" /\ UNCHANGED <<hgSocket, hgFd, OnDisk>> /\ RunOther
       \/ RunFails

SendRequest ==
    /\ hgPc = "request"
    /\ \/ hgPc' = "header" /\ UNCHANGED <<hgSocket, hgFd, OnDisk>> /\ RunOther
       \/ RunFails

ReadHeader ==
    /\ hgPc = "header"
    /\ \/ /\ \E n \in BodyLengths \cup {NoLength} : hgLength' = n
          /\ hgPc' = "body"
          /\ UNCHANGED <<hgSocket, hgFd, hgFile, hgSaved, hgReceived, hgMarker>> /\ RunOther
       \/ RunFails

\* The body is complete: with a Content-Length only.
BodyEnds == hgPc = "body" /\ hgLength # NoLength /\ hgReceived = hgLength

\* A chunk is received and given to the chunkRead of the cache, which saves
\* it and counts what it was given, not what was written; the last one makes
\* the .complete file.
ChunkRead ==
    /\ hgPc = "body" /\ ~BodyEnds
    /\ \E n \in 1..(IF hgLength = NoLength THEN 1 ELSE hgLength - hgReceived) :
          /\ hgReceived + n <= MaxBody
          /\ hgReceived' = hgReceived + n
          /\ hgFd' = TRUE
          /\ \E written \in 0..n : hgFile' = (IF hgReceived = 0 THEN 0 ELSE hgFile) + written
          /\ hgSaved' = hgSaved + n
          /\ hgMarker' = (hgMarker \/ hgSaved + n = hgLength)
    /\ UNCHANGED <<hgPc, hgSocket, hgLength>> /\ RunOther

\* The destination cannot be opened or written, or the marker made.
ChunkReadFails ==
    /\ hgPc = "body" /\ ~BodyEnds
    /\ \E opened \in BOOLEAN :
          /\ hgFd' = (hgFd \/ opened)
          /\ hgFile' = IF hgReceived = 0 /\ opened THEN 0 ELSE hgFile
    /\ hgSocket' = FALSE /\ hgPc' = "failing"
    /\ UNCHANGED <<hgSaved, hgLength, hgReceived, hgMarker>> /\ RunOther

\* The peer closes, a timeout expires: an error even without Content-Length.
BodyInterrupted == hgPc = "body" /\ ~BodyEnds /\ RunFails

\* After the body the clock is read and the socket is closed.
CloseSocket ==
    /\ BodyEnds
    /\ \/ hgSocket' = FALSE /\ hgPc' = "closing" /\ UNCHANGED <<hgFd, OnDisk>> /\ RunOther
       \/ RunFails

\* closingHttpGet closes the destination, and removes it after an error.
Closing ==
    /\ hgPc \in {"closing", "failing"}
    /\ hgFd' = FALSE
    /\ hgFile' = IF hgPc = "failing" THEN NoFile ELSE hgFile
    /\ hgPc' = "ended"
    /\ UNCHANGED <<hgSocket, hgSaved, hgLength, hgReceived, hgMarker>> /\ RunOther

\* closingHttpGet returns when the destination cannot be closed, after a good
\* get as well (its descriptor is gone all the same), or, after an error, when
\* it cannot be looked for or removed.
ClosingFails ==
    /\ hgPc \in {"closing", "failing"}
    /\ hgPc = "closing" => hgFd
    /\ hgFd' = FALSE
    /\ hgPc' = "closingFailed"
    /\ UNCHANGED <<hgSocket, OnDisk>> /\ RunOther

GetNext ==
    \/ BeginInit \/ InitURI \/ InitRequest \/ AppendHeaders \/ InitHeaderResponse
    \/ InitBodyResponse \/ InitCookieResponse \/ InitSetCookieResponse
    \/ InitLocationResponse \/ InitGetThread \/ FinishGet \/ LeaveGet
    \/ Connect \/ SetOptions \/ SetBuffers \/ SendRequest \/ ReadHeader
    \/ ChunkRead \/ ChunkReadFails \/ BodyInterrupted \/ CloseSocket \/ Closing \/ ClosingFails

GetSpec == GetInit /\ [][GetNext]_getVars

(***************************************************************************)
(* Properties of a get                                                     *)
(***************************************************************************)
GetTypeOK ==
    /\ hgPc \in {"idle", "headers", "thread", "ready", "options", "send", "request", "header",
                 "body", "closing", "failing", "ended", "closingFailed"} \cup {Buffers[i] : i \in 1..7}
    /\ hgFile \in (0..MaxBody) \cup {NoFile}
    /\ hgReceived \in 0..MaxBody /\ hgSaved \in Nat

\* An object that is initialized again without finish, or whose init failed
\* halfway, neither keeps a buffer of the earlier get nor initializes one twice.
BuffersInitializedOnce ==
    /\ Len(hgBuffers) <= 7 /\ \A i \in 1..Len(hgBuffers) : hgBuffers[i] = Buffers[i]
    /\ hgPc = "idle" => (hgThread <=> hgSaving) /\ (hgSaving <=> Len(hgBuffers) = 7)

\* Whatever fails in run(), and wherever it does, no descriptor is left open
\* and no file of a get that failed is left behind, unless it cannot be removed.
EndedGetIsClean ==
    /\ hgPc \in {"idle", "ready", "ended"} => ~hgSocket /\ ~hgFd
    /\ hgPc = "ended" /\ hgFile # NoFile => hgReceived = hgLength

\* The .complete file of the cache is made by the chunk that completes the
\* Content-Length, for the second get of an object as for the first.
MarkerAfterWholeBody == [][~hgMarker /\ hgMarker' => hgReceived' = hgLength]_getVars

-----------------------------------------------------------------------------
CONSTANTS MaxServed,     \* a bound on the clients served
          HsPatience,    \* the 5 seconds of cancel
          HsMaxTime      \* a bound on the clock

ASSUME HttpServerAssumption == MaxServed \in Nat /\ HsPatience \in Nat /\ HsMaxTime \in Nat

VARIABLES hsPc,       \* where run() is
          hsHeld,     \* the sockets and buffers of run()
          hsShutdown, \* _bIsShutdown
          hsOwner, hsJoined, hsNow, hsAsked, hsServed,
          hpPc, hpHeld, hpInternal, hpGiven

serverVars == <<hsPc, hsHeld, hsShutdown, hsOwner, hsJoined, hsNow, hsAsked, hsServed>>
postVars == <<hpPc, hpHeld, hpInternal, hpGiven>>
webVars == <<serverVars, postVars>>

WebInit ==
    /\ hsPc = "none" /\ hsHeld = {} /\ hsShutdown = FALSE
    /\ hsOwner = "idle" /\ hsJoined = FALSE /\ hsNow = 0 /\ hsAsked = 0 /\ hsServed = 0
    /\ hpPc = "idle" /\ hpHeld = {} /\ hpInternal = FALSE /\ hpGiven = "open"

(***************************************************************************)
(* The server                                                              *)
(***************************************************************************)
ServerControl == <<hsOwner, hsJoined, hsNow, hsAsked>>

\* Every branch that fails finishes what run() holds.
ServerFails ==
    /\ hsHeld' = {}
    /\ hsPc' = "failed"
    /\ UNCHANGED <<hsShutdown, ServerControl, hsServed, postVars>>

Acquire(from, what, to) ==
    \/ /\ hsPc = from
       /\ hsHeld' = hsHeld \cup {what}
       /\ hsPc' = to
       /\ UNCHANGED <<hsShutdown, ServerControl, hsServed, postVars>>
    \/ hsPc = from /\ ServerFails

StartServer ==
    /\ hsPc = "none" /\ hsOwner = "idle"
    /\ hsPc' = "listen"
    /\ UNCHANGED <<hsHeld, hsShutdown, ServerControl, hsServed, postVars>>

Listen == Acquire("listen", "server", "header")
InitHeaderRequest == Acquire("header", "header", "body")
InitBodyRequest == Acquire("body", "body", "cookie")
InitCookie == Acquire("cookie", "cookie", "shutdown")

ServerBegins ==
    /\ hsPc = "shutdown"
    /\ hsShutdown' = FALSE
    /\ hsPc' = "client"
    /\ UNCHANGED <<hsHeld, ServerControl, hsServed, postVars>>

InitClientSocket == Acquire("client", "client", "accept")

\* Nobody connects: the socket object is finished and run() sleeps.
NothingToAccept ==
    /\ hsPc = "accept"
    /\ \/ /\ hsHeld' = hsHeld \ {"client"}
          /\ hsPc' = IF hsShutdown THEN "finish" ELSE "client"
          /\ UNCHANGED <<hsShutdown, ServerControl, hsServed, postVars>>
       \/ ServerFails

Accept ==
    /\ hsPc = "accept" /\ hsServed < MaxServed
    /\ hsServed' = hsServed + 1
    /\ hsPc' = "read"
    /\ UNCHANGED <<hsHeld, hsShutdown, ServerControl, postVars>>

ServerStep(from, to) ==
    /\ hsPc = from
    /\ \/ hsPc' = to /\ UNCHANGED <<hsHeld, hsShutdown, ServerControl, hsServed, postVars>>
       \/ ServerFails

\* A request that cannot be read, or answered, ends the server.
ReadRequest == ServerStep("read", "answer")
httpReceived == ServerStep("answer", "close")

CloseClient ==
    /\ hsPc = "close"
    /\ \/ /\ hsHeld' = hsHeld \ {"client"}
          /\ hsPc' = IF hsShutdown THEN "finish" ELSE "client"
          /\ UNCHANGED <<hsShutdown, ServerControl, hsServed, postVars>>
       \/ ServerFails

FinishServerRun ==
    /\ hsPc = "finish"
    /\ hsHeld' = {}
    /\ hsPc' = "ended"
    /\ UNCHANGED <<hsShutdown, ServerControl, hsServed, postVars>>

ServerRun ==
    \/ Listen \/ InitHeaderRequest \/ InitBodyRequest \/ InitCookie \/ ServerBegins
    \/ InitClientSocket \/ NothingToAccept \/ Accept \/ ReadRequest \/ httpReceived
    \/ CloseClient \/ FinishServerRun

Serving == hsPc \notin {"none", "failed", "ended", "cancelled"}

JoinServer ==
    /\ Serving /\ hsOwner = "idle" /\ ~hsJoined
    /\ hsJoined' = TRUE
    /\ UNCHANGED <<hsPc, hsHeld, hsShutdown, hsOwner, hsNow, hsAsked, hsServed, postVars>>

CancelServer ==
    /\ hsOwner = "idle" /\ hsPc # "none" /\ hsNow + HsPatience <= HsMaxTime
    /\ hsOwner' = "cancel" /\ hsShutdown' = TRUE /\ hsAsked' = hsNow
    /\ UNCHANGED <<hsPc, hsHeld, hsJoined, hsNow, hsServed, postVars>>

\* cancel looks for THREADLIB_STARTED only: the thread of a server that
\* somebody joins is left to the request to stop.
CancelServerEnds ==
    /\ hsOwner = "cancel"
    /\ ~Serving \/ hsJoined \/ hsNow - hsAsked >= HsPatience
    /\ hsPc' = IF Serving /\ ~hsJoined THEN "cancelled" ELSE hsPc
    /\ hsHeld' = IF Serving /\ ~hsJoined THEN {} ELSE hsHeld
    /\ hsOwner' = "cancelled"
    /\ UNCHANGED <<hsShutdown, hsJoined, hsNow, hsAsked, hsServed, postVars>>

HsTick ==
    /\ hsOwner = "cancel" /\ hsNow < HsMaxTime
    /\ hsNow' = hsNow + 1
    /\ UNCHANGED <<hsPc, hsHeld, hsShutdown, hsOwner, hsJoined, hsAsked, hsServed, postVars>>

(***************************************************************************)
(* The post                                                                *)
(***************************************************************************)
PostBuffers == {"HeaderRequest", "BodyRequest", "HeaderResponse", "BodyResponse", "CookieResponse"}

\* init with a socket of its own connects it first.
InitPostOwn ==
    /\ hpPc = "idle"
    /\ \/ hpHeld' = {"socket"} /\ hpPc' = "own"
       \/ UNCHANGED <<hpHeld, hpPc>>
    /\ UNCHANGED <<hpInternal, hpGiven, serverVars>>

InitPostGiven ==
    /\ hpPc = "idle" /\ hpGiven = "open"
    /\ hpPc' = "given"
    /\ UNCHANGED <<hpHeld, hpInternal, hpGiven, serverVars>>

\* Mutant: the inner init of a given socket leaves the flag of an earlier post.
InitPostKeepsFlag ==
    /\ hpPc \in {"own", "given"}
    /\ \/ /\ hpHeld' = hpHeld \cup PostBuffers
          /\ hpInternal' = (hpInternal \/ hpPc = "own")
          /\ hpPc' = "ready"
       \/ hpHeld' = {} /\ hpPc' = "idle" /\ UNCHANGED hpInternal
    /\ UNCHANGED <<hpGiven, serverVars>>

\* The inner init: the lines of the header, the buffers, the thread; a failure
\* finishes the buffers, and the outer init the socket.
InitPost ==
    /\ hpPc \in {"own", "given"}
    /\ \/ /\ hpHeld' = hpHeld \cup PostBuffers
          /\ hpInternal' = (hpPc = "own")
          /\ hpPc' = "ready"
       \/ hpHeld' = {} /\ hpInternal' = FALSE /\ hpPc' = "idle"
    /\ UNCHANGED <<hpGiven, serverVars>>

\* run writes the header and the body and reads the answer.
RunPost ==
    /\ hpPc = "ready"
    /\ hpPc' \in {"posted", "failed"}
    /\ UNCHANGED <<hpHeld, hpInternal, hpGiven, serverVars>>

\* finish closes the socket only when it is the object's.
FinishPost ==
    /\ hpPc \in {"ready", "posted", "failed"}
    /\ hpHeld' = IF hpInternal THEN {} ELSE hpHeld \ PostBuffers
    /\ hpGiven' = IF hpInternal /\ "socket" \notin hpHeld THEN "closed" ELSE hpGiven
    /\ hpPc' = "idle"
    /\ UNCHANGED <<hpInternal, serverVars>>

WebNext ==
    \/ StartServer \/ ServerRun \/ JoinServer \/ CancelServer \/ CancelServerEnds \/ HsTick
    \/ InitPostOwn \/ InitPostGiven \/ InitPost \/ RunPost \/ FinishPost

ServerFairness == WF_webVars(ServerRun) /\ WF_webVars(CancelServerEnds) /\ WF_webVars(HsTick)

WebSpec == WebInit /\ [][WebNext]_webVars

(***************************************************************************)
(* Properties of the server and of a post                                  *)
(***************************************************************************)
WebTypeOK ==
    /\ hsHeld \subseteq {"server", "header", "body", "cookie", "client"}
    /\ hsOwner \in {"idle", "cancel", "cancelled"}
    /\ hsServed \in 0..MaxServed /\ hsNow \in 0..HsMaxTime
    /\ hpHeld \subseteq PostBuffers \cup {"socket"}

\* Of all the sockets and buffers of HttpServer::run none is left when run
\* returns, wherever it fails, and a new client meets no earlier one.
ServerReleasesAll ==
    /\ ~Serving => hsHeld = {}
    /\ hsPc = "client" => "client" \notin hsHeld

\* A post over the caller's socket never closes it and a post over its own
\* always does, in any sequence of the two, failed inits between them.
PostSocketOwned ==
    /\ hpPc = "idle" => hpHeld = {}
    /\ hpGiven = "open"

\* cancel ends a server that nobody joins, also when run() forgets the request
\* to stop that came before it began.
CancelEndsServer == hsOwner = "cancel" ~> (~Serving \/ hsJoined)
=============================================================================
