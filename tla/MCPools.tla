------------------------------ MODULE MCPools ------------------------------
(* The objects that threads share and the sockets under them: the factory  *)
(* of events, the threads, the two pools of sockets, the descriptors and   *)
(* the streams.  One of them takes steps in a behaviour, the others stay   *)
(* in their initial state.                                                 *)
EXTENDS EventsFactory, SocketsPool, ClientSocketsPool, SocketStream, TLC

CONSTANT a, b, c   \* sockets of the pool

VARIABLE part

\* a and b are bound to the same port, c is not bound.
MCLocalPort == a :> 80 @@ b :> 80 @@ c :> NoPort

\* Every short text with every mix of line ends; a telnet session with each
\* command; every short text over two letters.
UpTo(n, S) == UNION {[1..m -> S] : m \in 0..n}

Sessions ==
    {<<"x", "IAC", "DO", "TERMTYPE", "y", "IAC", "SB", "TERMTYPE", "SEND", "IAC", "SE", "LF">>,
     <<"IAC", "WILL", "ECHO", "x", "IAC", "IAC", "CR", "LF", "y">>,
     <<"x", "IAC", "DO", "ECHO", "IAC", "NOP", "y", "LF">>}

MCStreamsOf ==
    "line" :> UpTo(5, {"x", "y", "CR", "LF"})
    @@ "telnet" :> Sessions
    @@ "wait" :> UpTo(6, {"x", "y"})

MCPattern == <<"x", "x", "y">>
MCReply == <<"x", "y", "x">>

\* A bound on the runs of the pool's thread; MaxRuns is that of a thread alone.
PoolRuns == 1

poolsVars == <<part, vars, threadVars, poolVars, clientPoolVars, implVars, streamVars>>

PoolsInit ==
    /\ part \in {"factory", "thread", "pool", "clients", "impl", "stream"}
    /\ Init /\ PoolInit /\ ClientPoolInit /\ ImplInit /\ StreamInit
    /\ part # "stream" => stUse = "write"

PoolsNext ==
    \/ part = "factory" /\ Next
       /\ UNCHANGED <<part, threadVars, poolVars, clientPoolVars, implVars, streamVars>>
    \/ part = "thread" /\ ThreadNext
       /\ UNCHANGED <<part, vars, poolVars, clientPoolVars, implVars, streamVars>>
    \/ part = "pool" /\ PoolNext /\ thRuns' <= PoolRuns
       /\ UNCHANGED <<part, vars, clientPoolVars, implVars, streamVars>>
    \/ part = "clients" /\ ClientPoolNext
       /\ UNCHANGED <<part, vars, threadVars, poolVars, implVars, streamVars>>
    \/ part = "impl" /\ ImplNext
       /\ UNCHANGED <<part, vars, threadVars, poolVars, clientPoolVars, streamVars>>
    \/ part = "stream" /\ StreamNext
       /\ UNCHANGED <<part, vars, threadVars, poolVars, clientPoolVars, implVars>>

\* The pool's thread is scheduled, and poll returns when its time is over.
PoolsSpec ==
    PoolsInit /\ [][PoolsNext]_poolsVars
    /\ WF_poolsVars(part = "pool" /\ PoolRun /\ UNCHANGED <<part, vars, clientPoolVars, implVars, streamVars>>)
=============================================================================
