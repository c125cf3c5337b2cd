------------------------------- MODULE MCWeb -------------------------------
(* The load balancer, the cache manager, the get threads, the messages and *)
(* the server, one of them at a time.                                      *)
EXTENDS WebResources, HTTPCacheManager, TLC

CONSTANTS m1, m2   \* delivery modules

VARIABLE part

\* A group after another item; groups that share a module before an item with
\* a wrong number of values; a group that names a module twice and a group
\* without modules; no group.
Item(g, v, ms) == [group |-> g, values |-> v, modules |-> ms]
MCLbConfigs ==
    {<<Item(NoGroup, 1, <<>>), Item("A", 12, <<m1, m2>>)>>,
     <<Item("A", 18, <<m1, m2, m1>>), Item("B", 6, <<m2>>), Item("C", 7, <<m2>>)>>,
     <<Item("A", 18, <<m1, m2, m1>>), Item("B", 0, <<>>)>>,
     <<Item(NoGroup, 1, <<>>)>>}

\* Two messages on a connection, the first with a body of two bytes or of
\* none; a header of two lines and a body up to the end of the stream.
MCHmStreams ==
    {[bytes |-> <<"h", "r", "n", "r", "n", "b", "b", "h", "r", "n", "r", "n">>, length |-> 2],
     [bytes |-> <<"h", "r", "n", "h", "r", "n", "r", "n", "b">>, length |-> HmNoLength],
     [bytes |-> <<"h", "r", "n", "r", "n", "h", "r", "n", "r", "n">>, length |-> 0]}

mcWebVars == <<part, lbVars, cmVars, getVars, messageVars, webVars>>

MCWebInit ==
    /\ part \in {"balancer", "cache", "get", "message", "server"}
    /\ LbInit /\ CmInit /\ GetInit /\ MessageInit /\ WebInit
    /\ part # "balancer" => lbConfig = CHOOSE c \in LbConfigs : TRUE
    /\ part # "message" => hmPc = "header"
    /\ part # "message" \/ hmPc = "url" => hmStream = CHOOSE s \in HmStreams : TRUE

MCWebNext ==
    \/ part = "balancer" /\ LbNext /\ UNCHANGED <<part, cmVars, getVars, messageVars, webVars>>
    \/ part = "cache" /\ CmNext /\ UNCHANGED <<part, lbVars, getVars, messageVars, webVars>>
    \/ part = "get" /\ GetNext /\ UNCHANGED <<part, lbVars, cmVars, messageVars, webVars>>
    \/ part = "message" /\ MessageNext /\ UNCHANGED <<part, lbVars, cmVars, getVars, webVars>>
    \/ part = "server" /\ WebNext /\ UNCHANGED <<part, lbVars, cmVars, getVars, messageVars>>

MCWebSpec ==
    MCWebInit /\ [][MCWebNext]_mcWebVars
    /\ LbFairness /\ ServerFairness

-----------------------------------------------------------------------------
\* A client of the balancer gets its answer while the checks hold the mutexes of the modules, and cancel ends the
\* thread of the balancer and the server.
WebCallsEnd == ClientReturns /\ CancelEndsThread /\ CancelEndsServer
=============================================================================
