----------------------------- MODULE CMService -----------------------------
(***************************************************************************)
(* ConnectionsManagerService: onInit reads the configuration and builds    *)
(* the parts of the server one after the other, onStart starts its threads *)
(* and joins the scheduler, and cancel, called from the signal handler at  *)
(* any moment after onInit, stops the threads and finishes the parts.      *)
(***************************************************************************)
EXTENDS CMEvents

CONSTANTS SvSessions,    \* _ulMaxConnections
          SvProcessors   \* _ulProcessorsNumber

ASSUME SvAssumption == SvSessions \in Nat \ {0} /\ SvProcessors \in Nat \ {0}

VARIABLES svPc,        \* where onInit, onStart or cancel is
          svHeld,      \* the parts that are initialized
          svBack,      \* what a branch, or cancel, has still to finish, in its order
          svFailed,    \* history: the step of onInit that failed
          svCount,     \* the sessions, then the processors, initialized or started so far
          svProxy,     \* _bIsHTTPProxyEnabled
          svThreads,   \* the threads that run
          svTimes      \* the Times that are started and active

svKeeps == <<svHeld, svBack, svFailed>>
svcVars == <<svPc, svKeeps, svCount, svProxy, svThreads, svTimes>>

SvInit ==
    /\ svPc = "hashMap" /\ svHeld = {} /\ svBack = <<>> /\ svFailed = "none"
    /\ svCount = 0 /\ svProxy = FALSE
    /\ svThreads = {} /\ svTimes = {}

(***************************************************************************)
(* What the branches of onInit that fail finish: each spells out its own   *)
(* list.  Processors and sessions are those made so far.                   *)
(***************************************************************************)
IfAny(n, part) == IF n > 0 THEN <<part>> ELSE <<>>

SvBackConfiguration == <<"configuration">>
SvBackTracer == <<"tracer">> \o SvBackConfiguration
SvBackEvents == <<"eventsSet">> \o SvBackTracer

\* The list of the free sessions is not cleared by this branch.
SvBackSession == IfAny(svCount, "eachSession") \o (<<"sessions">> \o SvBackEvents)
SvBackSessions == <<"freeSessions">> \o (<<"eachSession">> \o (<<"sessions">> \o SvBackEvents))
SvBackMutex == <<"freeMutex">> \o SvBackSessions
SvBackServer == <<"serverSocket">> \o SvBackMutex
SvBackPool == <<"socketsPool">> \o SvBackServer
SvBackScheduler == <<"scheduler">> \o SvBackPool
SvBackTimesPool == <<"timesPool">> \o SvBackScheduler
SvBackTimesServer == <<"timesServer">> \o SvBackTimesPool
SvBackTimesUnused == <<"timesUnused">> \o SvBackTimesServer
SvBackProxy == IF svProxy THEN <<"loadBalancer">> \o SvBackTimesUnused ELSE SvBackTimesUnused
SvBackProcessors == IfAny(svCount, "eachProcessor") \o (<<"processors">> \o SvBackProxy)

\* What CMProcessor::init gives back, before the others.
SvBackBase == <<"base">> \o SvBackProcessors
SvBackSection == <<"section">> \o SvBackBase

(***************************************************************************)
(* init and onInit: a part after the other.                                *)
(***************************************************************************)
SvFails(pc, back) ==
    /\ svPc = pc /\ svPc' = "back"
    /\ svBack' = back /\ svFailed' = pc /\ svCount' = 0
    /\ UNCHANGED <<svHeld, svProxy>>

\* A value of the configuration, or a call that keeps nothing.
SvReads(pc, next, back) ==
    /\ \/ svPc = pc /\ svPc' = next /\ UNCHANGED <<svKeeps, svCount, svProxy>>
       \/ SvFails(pc, back)
    /\ UNCHANGED <<svThreads, svTimes>>

SvBuilds(pc, next, back) ==
    /\ \/ /\ svPc = pc /\ svPc' = next /\ svHeld' = svHeld \cup {pc}
          /\ UNCHANGED <<svBack, svFailed, svCount, svProxy>>
       \/ SvFails(pc, back)
    /\ UNCHANGED <<svThreads, svTimes>>

SvInitService == SvBuilds("hashMap", "configuration", <<>>)
SvConfiguration == SvBuilds("configuration", "user", <<>>)
SvUser == SvReads("user", "tracerItems", SvBackConfiguration)
SvTracerItems == SvReads("tracerItems", "tracer", SvBackConfiguration)
SvTracer == SvBuilds("tracer", "eventsSet", SvBackConfiguration)
SvEventsSet == SvBuilds("eventsSet", "maxConnections", SvBackTracer)
SvMaxConnections == SvReads("maxConnections", "timeoutToWait", SvBackEvents)
SvTimeoutToWait == SvReads("timeoutToWait", "additionalMicros", SvBackEvents)
SvAdditionalMicros == SvReads("additionalMicros", "sessions", SvBackEvents)
SvSessionsArray == SvBuilds("sessions", "session", SvBackEvents)

\* Each session is initialized and put among the free ones.
SvSession ==
    /\ \/ /\ svPc = "session" /\ svCount < SvSessions
          /\ svCount' = svCount + 1
          /\ svHeld' = svHeld \cup {"eachSession", "freeSessions"}
          /\ UNCHANGED <<svPc, svBack, svFailed, svProxy>>
       \/ /\ svPc = "session" /\ svCount = SvSessions
          /\ svCount' = 0 /\ svPc' = "freeMutex"
          /\ UNCHANGED <<svKeeps, svProxy>>
       \/ svCount < SvSessions /\ SvFails("session", SvBackSession)
    /\ UNCHANGED <<svThreads, svTimes>>

SvFreeMutex == SvBuilds("freeMutex", "localIP", SvBackSessions)
SvLocalIP == SvReads("localIP", "localPort", SvBackMutex)
SvLocalPort == SvReads("localPort", "maxClients", SvBackMutex)
SvMaxClients == SvReads("maxClients", "timeoutToAccept", SvBackMutex)
SvTimeoutToAccept == SvReads("timeoutToAccept", "serverSocket", SvBackMutex)

\* Mutant: the sessions are deleted, but not finished.
SvServerSocketForgets ==
    SvBuilds("serverSocket", "serverImpl",
             <<"freeMutex">> \o (<<"freeSessions">> \o (<<"sessions">> \o SvBackEvents)))

SvServerSocket == SvBuilds("serverSocket", "serverImpl", SvBackMutex)
SvServerImpl == SvReads("serverImpl", "blocking", SvBackServer)
SvBlocking == SvReads("blocking", "receiveBuffer", SvBackServer)
SvReceiveBuffer == SvReads("receiveBuffer", "socketsPool", SvBackServer)
SvSocketsPool == SvBuilds("socketsPool", "destination", SvBackServer)
SvDestination == SvReads("destination", "period", SvBackPool)
SvPeriod == SvReads("period", "periodPool", SvBackPool)
SvPeriodPool == SvReads("periodPool", "periodServer", SvBackPool)
SvPeriodServer == SvReads("periodServer", "periodUnused", SvBackPool)
SvPeriodUnused == SvReads("periodUnused", "scheduler", SvBackPool)
SvScheduler == SvBuilds("scheduler", "timesPool", SvBackPool)
SvTimesPool == SvBuilds("timesPool", "timesServer", SvBackScheduler)
SvTimesServer == SvBuilds("timesServer", "timesUnused", SvBackTimesPool)
SvTimesUnused == SvBuilds("timesUnused", "proxyEnabled", SvBackTimesServer)

\* The load balancer is made only when the proxy is enabled.
SvProxyEnabled ==
    /\ \/ /\ svPc = "proxyEnabled" /\ svProxy' \in BOOLEAN
          /\ svPc' = IF svProxy' THEN "loadBalancer" ELSE "processorsNumber"
          /\ UNCHANGED <<svKeeps, svCount>>
       \/ SvFails("proxyEnabled", SvBackTimesUnused)
    /\ UNCHANGED <<svThreads, svTimes>>

SvLoadBalancer == SvBuilds("loadBalancer", "processorsNumber", SvBackTimesUnused)
SvProcessorsNumber == SvReads("processorsNumber", "limitTTL", SvBackProxy)
SvLimitTTL == SvReads("limitTTL", "limitAccept", SvBackProxy)
SvLimitAccept == SvReads("limitAccept", "limitDelay", SvBackProxy)
SvLimitDelay == SvReads("limitDelay", "limitEvent", SvBackProxy)
SvLimitEvent == SvReads("limitEvent", "processors", SvBackProxy)

\* onInitProcessors: one that fails finishes those before it.
SvProcessorsArray == SvBuilds("processors", "processor", SvBackProxy)

SvProcessor ==
    /\ svPc = "processor"
    /\ IF svCount < SvProcessors
       THEN svPc' = "base" /\ UNCHANGED svCount
       ELSE svPc' = "ready" /\ svCount' = 0
    /\ UNCHANGED <<svKeeps, svProxy, svThreads, svTimes>>

\* CMProcessor::init: the base, the section of the proxy and its items, the
\* buffers.  The branch of the last item finishes nothing of its own.
SvProcessorBase ==
    SvBuilds("base", IF svProxy THEN "section" ELSE "processorBuffers", SvBackProcessors)
SvProcessorSection == SvBuilds("section", "processorItems", SvBackBase)
SvProcessorItems == SvReads("processorItems", "processorTimeout", SvBackSection)
SvProcessorTimeout == SvReads("processorTimeout", "processorBuffers", SvBackProcessors)
SvProcessorBuffers ==
    /\ \/ /\ svPc = "processorBuffers" /\ svPc' = "processor"
          /\ svCount' = svCount + 1
          /\ svHeld' = (svHeld \ {"base", "section"}) \cup {"eachProcessor"}
          /\ UNCHANGED <<svBack, svFailed, svProxy>>
       \/ SvFails("processorBuffers", IF svProxy THEN SvBackSection ELSE SvBackBase)
    /\ UNCHANGED <<svThreads, svTimes>>

SvOnInit ==
    \/ SvInitService \/ SvConfiguration \/ SvUser \/ SvTracerItems \/ SvTracer \/ SvEventsSet \/ SvMaxConnections
    \/ SvTimeoutToWait \/ SvAdditionalMicros \/ SvSessionsArray \/ SvSession \/ SvFreeMutex
    \/ SvLocalIP \/ SvLocalPort \/ SvMaxClients \/ SvTimeoutToAccept \/ SvServerSocket
    \/ SvServerImpl \/ SvBlocking \/ SvReceiveBuffer \/ SvSocketsPool \/ SvDestination
    \/ SvPeriod \/ SvPeriodPool \/ SvPeriodServer \/ SvPeriodUnused \/ SvScheduler
    \/ SvTimesPool \/ SvTimesServer \/ SvTimesUnused \/ SvProxyEnabled \/ SvLoadBalancer
    \/ SvProcessorsNumber \/ SvLimitTTL \/ SvLimitAccept \/ SvLimitDelay \/ SvLimitEvent
    \/ SvProcessorsArray \/ SvProcessor \/ SvProcessorBase \/ SvProcessorSection \/ SvProcessorItems
    \/ SvProcessorTimeout \/ SvProcessorBuffers

\* The next of what the branch, or finishTheService, has to finish.
SvGivesBack ==
    /\ svPc \in {"back", "finish"}
    /\ IF svBack # <<>>
       THEN /\ svHeld' = svHeld \ {Head(svBack)} /\ svTimes' = svTimes \ {Head(svBack)}
            /\ svBack' = Tail(svBack)
            /\ UNCHANGED svPc
       ELSE /\ svPc' = IF svPc = "back" THEN "refused" ELSE "exited"
            /\ UNCHANGED <<svHeld, svBack, svTimes>>
    /\ UNCHANGED <<svFailed, svCount, svProxy, svThreads>>

(***************************************************************************)
(* onStart: the threads, then the Times; a failure cancels the threads.    *)
(***************************************************************************)
SvProcessorName(i) == <<"processor", i>>
SvProcessorThreads == {SvProcessorName(i) : i \in 1 .. SvProcessors}
SvOther(x) == <<x, 0>>

SvBeginStart ==
    /\ svPc = "ready" /\ svPc' = "startProcessors"
    /\ UNCHANGED <<svKeeps, svCount, svProxy, svThreads, svTimes>>

\* Those that are started are cancelled when one does not start.
SvStartProcessors ==
    /\ svPc = "startProcessors"
    /\ \/ /\ svCount < SvProcessors
          /\ svCount' = svCount + 1
          /\ svThreads' = svThreads \cup {SvProcessorName(svCount + 1)}
          /\ UNCHANGED svPc
       \/ /\ svCount = SvProcessors
          /\ svCount' = 0 /\ svPc' = "startLoadBalancer"
          /\ UNCHANGED svThreads
       \/ /\ svCount' = 0 /\ svPc' = "startFailed"
          /\ svThreads' = {}
    /\ UNCHANGED <<svKeeps, svProxy, svTimes>>

SvStartLoadBalancer ==
    /\ svPc = "startLoadBalancer"
    /\ \/ /\ svPc' = "startScheduler"
          /\ svThreads' = IF svProxy THEN svThreads \cup {SvOther("loadBalancer")} ELSE svThreads
       \/ svProxy /\ svPc' = "startFailed" /\ svThreads' = {}
    /\ UNCHANGED <<svKeeps, svCount, svProxy, svTimes>>

SvStartScheduler ==
    /\ svPc = "startScheduler"
    /\ \/ svPc' = "startPool" /\ svThreads' = svThreads \cup {SvOther("scheduler")}
       \/ svPc' = "startFailed" /\ svThreads' = {}
    /\ UNCHANGED <<svKeeps, svCount, svProxy, svTimes>>

\* A Times is started and made active; the failure leaves the ones before
\* it started, but no thread that would look at them.
SvStartTimes(pc, next, times) ==
    /\ svPc = pc
    /\ \/ svPc' = next /\ svTimes' = svTimes \cup times /\ UNCHANGED svThreads
       \/ svPc' = "startFailed" /\ svThreads' = {} /\ UNCHANGED svTimes
    /\ UNCHANGED <<svKeeps, svCount, svProxy>>

SvStartTimesPool == SvStartTimes("startPool", "startServer", {"timesPool"})
SvStartTimesServer == SvStartTimes("startServer", "startUnused", {"timesServer"})
SvStartTimesUnused == SvStartTimes("startUnused", "startMine", {"timesUnused"})
SvStartMyTimes == SvStartTimes("startMine", "running", {})

SvOnStart ==
    \/ SvBeginStart \/ SvStartProcessors \/ SvStartLoadBalancer \/ SvStartScheduler
    \/ SvStartTimesPool \/ SvStartTimesServer \/ SvStartTimesUnused \/ SvStartMyTimes

(***************************************************************************)
(* signalHandler and cancel, on the main thread, between any two steps of  *)
(* onStart; the process then ends.                                         *)
(***************************************************************************)
SvStarting == {"startProcessors", "startLoadBalancer", "startScheduler", "startPool",
               "startServer", "startUnused", "startMine", "running"}

\* A scheduler that is not started refuses; that is no error.
SvCancelScheduler ==
    /\ svPc \in SvStarting
    /\ svPc' = "cancelLoadBalancer"
    /\ svThreads' = svThreads \ {SvOther("scheduler")}
    /\ UNCHANGED <<svKeeps, svCount, svProxy, svTimes>>

SvCancelLoadBalancer ==
    /\ svPc = "cancelLoadBalancer"
    /\ svPc' = "cancelProcessors"
    /\ svThreads' = IF svProxy THEN svThreads \ {SvOther("loadBalancer")} ELSE svThreads
    /\ UNCHANGED <<svKeeps, svCount, svProxy, svTimes>>

\* finishTheService: the load balancer only when there is one.
SvFinishList == <<"eachProcessor">> \o (<<"processors">> \o SvBackProxy)

\* onCancelProcessors: cancel waits for the thread, or ends it.
SvCancelProcessors ==
    /\ svPc = "cancelProcessors"
    /\ svPc' = "finish" /\ svBack' = SvFinishList
    /\ svThreads' = svThreads \ SvProcessorThreads
    /\ svCount' = 0
    /\ UNCHANGED <<svHeld, svFailed, svProxy, svTimes>>

\* The scheduler ends by itself after onStop has cancelled it: onStart
\* returns while the other threads run.
SvJoined ==
    /\ svPc = "running"
    /\ svThreads' = svThreads \ {SvOther("scheduler")}
    /\ svPc' = "joined"
    /\ UNCHANGED <<svKeeps, svCount, svProxy, svTimes>>

SvNext ==
    \/ SvOnInit \/ SvOnStart \/ SvCancelScheduler \/ SvCancelLoadBalancer \/ SvCancelProcessors
    \/ SvGivesBack \/ SvJoined

SvSpec == SvInit /\ [][SvNext]_svcVars

\* The service with its events.
ServiceSpec == CeSpec /\ SvSpec

(***************************************************************************)
(* Properties.                                                             *)
(***************************************************************************)
\* The parts, with the order in which they are made.
SvMade == [hashMap |-> 1, configuration |-> 2, tracer |-> 3, eventsSet |-> 4, sessions |-> 5,
           eachSession |-> 6, freeSessions |-> 7, freeMutex |-> 8, serverSocket |-> 9,
           socketsPool |-> 10, scheduler |-> 11, timesPool |-> 12, timesServer |-> 13,
           timesUnused |-> 14, loadBalancer |-> 15, processors |-> 16, eachProcessor |-> 17,
           base |-> 18, section |-> 19]
SvParts == DOMAIN SvMade

\* The variables have their types.
SvTypeOK ==
    /\ svHeld \subseteq SvParts /\ svBack \in Seq(SvParts) /\ svProxy \in BOOLEAN
    /\ svCount \in 0 .. SvSessions + SvProcessors
    /\ svThreads \subseteq SvProcessorThreads \cup {SvOther("scheduler"), SvOther("loadBalancer")}

\* What onInit leaves when the step failed: what init had made; the list of the
\* free sessions, with the sessions that are deleted, when a session fails
\* (ConnectionsManagerService.cpp:565-612); and the base and the section of a
\* processor, whose array is deleted, when the last item of the proxy is
\* missing (CMProcessor.cpp:207-222).
SvLeft(failed) ==
    CASE failed = "hashMap" -> {}
      [] failed = "session" -> {"hashMap", "freeSessions"}
      [] failed = "processorTimeout" -> {"hashMap", "base", "section"}
      [] OTHER -> {"hashMap"}

\* The service whose onInit failed holds nothing but what SvLeft says,
\* wherever it failed: no other branch forgets a part.
ServiceAllOrNothing == svPc = "refused" => svHeld \subseteq SvLeft(svFailed)

\* No branch, nor cancel, finishes a part that was not initialized, one twice,
\* or one before those that were made after it and may use it.
LastMadeFirst ==
    svPc \in {"back", "finish"} =>
        /\ \A i \in 1 .. Len(svBack) : svBack[i] \in svHeld
        /\ \A i, j \in 1 .. Len(svBack) : i < j => SvMade[svBack[j]] < SvMade[svBack[i]]

\* What a thread works with.
SvNeeds(t) ==
    CASE t[1] = "processor" -> {"eachProcessor", "eventsSet", "eachSession", "freeSessions", "freeMutex",
                                "serverSocket", "socketsPool", "tracer"}
      [] t[1] = "scheduler" -> {"scheduler", "timesPool", "timesServer", "timesUnused", "eventsSet"}
      [] t[1] = "loadBalancer" -> {"loadBalancer", "tracer"}

\* No part is finished while a thread that works with it runs, in whatever
\* moment of onStart the signal comes.
ThreadsUseHeldParts == \A t \in svThreads : SvNeeds(t) \subseteq svHeld

\* After a start that failed no thread is left, and after cancel neither a
\* thread nor a part but those of init.
NoThreadLeft ==
    /\ svPc = "startFailed" => svThreads = {}
    /\ svPc = "exited" => svThreads = {} /\ svHeld = {"hashMap"} /\ svTimes = {}

\* An onInit that fails leaves what SvLeft says and no more, the parts are
\* finished once and the last one first, no thread uses a part that cancel has
\* finished, and none is left when the service is over.
ServiceWhole ==
    SvTypeOK /\ ServiceAllOrNothing /\ LastMadeFirst /\ ThreadsUseHeldParts /\ NoThreadLeft

=============================================================================
