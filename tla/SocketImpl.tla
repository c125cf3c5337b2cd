----------------------------- MODULE SocketImpl -----------------------------
(***************************************************************************)
(* The life of the descriptors behind Socket/src/SocketImpl: the server    *)
(* socket (Socket/src/ServerSocket), a client socket that connects to it   *)
(* and the client socket that the server fills by accepting.  The kernel   *)
(* is the set of open descriptors.                                         *)
(***************************************************************************)
EXTENDS Integers, FiniteSets

CONSTANTS Descriptors,  \* the numbers that the kernel gives out
          MinusOne      \* _iFd of an object without descriptor

ASSUME DescriptorsAssumption == MinusOne \notin Descriptors

VARIABLES siFd,        \* _iFd of every SocketImpl
          siRealized,  \* _bIsConnectionRealized
          siPort,      \* _lLocalPort: is it set?
          siOpen,      \* the open descriptors
          siOptions,   \* the options set on every open descriptor
          siStatus     \* of the ServerSocket and of the ClientSockets

implVars == <<siFd, siRealized, siPort, siOpen, siOptions, siStatus>>

Impls == {"server", "client", "accepted"}
Options == {"receivingTimeout", "sendingTimeout", "maxSendBuffer",
            "maxReceiveBuffer", "linger", "keepAlive", "noDelay", "nonBlocking"}

ImplInit ==
    /\ siFd = [o \in Impls |-> MinusOne]
    /\ siRealized = [o \in Impls |-> FALSE]
    /\ siPort = [o \in Impls |-> FALSE]
    /\ siOpen = {}
    /\ siOptions = [d \in Descriptors |-> {}]
    /\ siStatus = [o \in Impls |-> "BUILDED"]

-----------------------------------------------------------------------------
(* What the methods leave: [fd, realized, port, open], and do they succeed? *)

New == [fd |-> MinusOne, realized |-> FALSE, port |-> FALSE, open |-> siOpen]

\* create may fail for the lack of a descriptor, or in setsockopt after it
\* has one, which it closes.
createImpl ==
    {[ok |-> FALSE, impl |-> New]}
    \cup {[ok |-> TRUE, impl |-> [New EXCEPT !.fd = d, !.open = @ \cup {d}]] :
            d \in Descriptors \ siOpen}

closeImpl(i) == [i EXCEPT !.fd = MinusOne, !.open = @ \ {i.fd}]

\* bind sets the local port before it asks the kernel, which may refuse.
bindImpl(i) ==
    {[ok |-> FALSE, impl |-> [i EXCEPT !.port = TRUE]],
     [ok |-> TRUE, impl |-> [i EXCEPT !.port = TRUE]]}

listenImpl(i) == {[ok |-> FALSE, impl |-> i], [ok |-> TRUE, impl |-> i]}

\* A connection in progress counts as realized once the socket is writable,
\* which it also is when the peer has refused the connection.
connectImpl(i) ==
    {[ok |-> FALSE, impl |-> i], [ok |-> TRUE, impl |-> [i EXCEPT !.realized = TRUE]]}

\* ~SocketImpl closes what is open; the object is gone.
deleteImpl(i) == [New EXCEPT !.open = i.open \ {i.fd}]

\* Does Step after the outcomes of Before that succeeded; the others are
\* cleaned up.
Then(Before, Step(_), CleanUp(_)) ==
    UNION {IF b.ok THEN Step(b.impl) ELSE {[ok |-> FALSE, impl |-> CleanUp(b.impl)]} :
             b \in Before}

-----------------------------------------------------------------------------
(* ServerSocket and ClientSocket *)

Becomes(o, outcome) ==
    /\ siFd' = [siFd EXCEPT ![o] = outcome.impl.fd]
    /\ siRealized' = [siRealized EXCEPT ![o] = outcome.impl.realized]
    /\ siPort' = [siPort EXCEPT ![o] = outcome.impl.port]
    /\ siOpen' = outcome.impl.open
    /\ siStatus' = [siStatus EXCEPT ![o] = IF outcome.ok THEN "INITIALIZED" ELSE "BUILDED"]
    /\ siOptions' = [d \in Descriptors |-> IF d \in siOpen' THEN siOptions[d] ELSE {}]

\* The server socket closes its descriptor and deletes its SocketImpl when
\* bind or listen fails.
initServer ==
    LET cleanUp(i) == deleteImpl(closeImpl(i))
        bound == Then(createImpl, LAMBDA i : bindImpl(i), LAMBDA i : deleteImpl(i))
        listening == Then(bound, LAMBDA i : listenImpl(i), cleanUp)
    IN /\ siStatus["server"] = "BUILDED"
       /\ \E r \in Then(listening, LAMBDA i : {[ok |-> TRUE, impl |-> i]}, cleanUp) :
            Becomes("server", r)

finishServer ==
    /\ siStatus["server"] = "INITIALIZED"
    /\ Becomes("server",
               [ok |-> FALSE,
                impl |-> deleteImpl(closeImpl([New EXCEPT !.fd = siFd["server"]]))])

\* A client socket that connects; every failure finishes it.
initClient ==
    LET cleanUp(i) == deleteImpl(closeImpl(i))
        bound == Then(createImpl, LAMBDA i : bindImpl(i), LAMBDA i : deleteImpl(i))
        connected == Then(bound, LAMBDA i : connectImpl(i), cleanUp)
    IN /\ siStatus["client"] = "BUILDED"
       /\ \E r \in Then(connected, LAMBDA i : {[ok |-> TRUE, impl |-> i]}, cleanUp) :
            Becomes("client", r)

\* A client socket without a connection, to be filled by acceptConnection.
initAccepted ==
    /\ siStatus["accepted"] = "BUILDED"
    /\ siStatus' = [siStatus EXCEPT !["accepted"] = "INITIALIZED"]
    /\ UNCHANGED <<siFd, siRealized, siPort, siOpen, siOptions>>

\* accept gives the SocketImpl a new descriptor; its failure gives it none.
\* The caller passes a socket that has no connection yet.
acceptConnection ==
    /\ siStatus["server"] = "INITIALIZED" /\ siStatus["accepted"] = "INITIALIZED"
    /\ siFd["accepted"] = MinusOne
    /\ \/ UNCHANGED implVars
       \/ \E d \in Descriptors \ siOpen :
            Becomes("accepted",
                    [ok |-> TRUE, impl |-> [New EXCEPT !.fd = d, !.realized = TRUE,
                                                        !.open = @ \cup {d}]])

finishClient(o) ==
    /\ o \in {"client", "accepted"} /\ siStatus[o] = "INITIALIZED"
    /\ Becomes(o, [ok |-> FALSE,
                   impl |-> deleteImpl(closeImpl([New EXCEPT !.fd = siFd[o]]))])

\* setsockopt on the descriptor of o; without a descriptor it fails.
setOption(o, option) ==
    /\ siFd[o] # MinusOne
    /\ siOptions' = [siOptions EXCEPT ![siFd[o]] = @ \cup {option}]
    /\ UNCHANGED <<siFd, siRealized, siPort, siOpen, siStatus>>

setReceivingTimeout(o) == setOption(o, "receivingTimeout")

setSendingTimeout(o) == setOption(o, "sendingTimeout")

setMaxSendBuffer(o) == setOption(o, "maxSendBuffer")

setMaxReceiveBuffer(o) == setOption(o, "maxReceiveBuffer")

setLinger(o) == setOption(o, "linger")

setKeepAlive(o) == setOption(o, "keepAlive")

setNoDelay(o) == setOption(o, "noDelay")

setBlocking(o) ==
    \/ setOption(o, "nonBlocking")
    \/ /\ siFd[o] # MinusOne
       /\ siOptions' = [siOptions EXCEPT ![siFd[o]] = @ \ {"nonBlocking"}]
       /\ UNCHANGED <<siFd, siRealized, siPort, siOpen, siStatus>>

ImplNext ==
    \/ initServer \/ finishServer \/ initClient \/ initAccepted \/ acceptConnection
    \/ \E o \in Impls : finishClient(o)
    \/ \E o \in {"client"} :
         \/ setReceivingTimeout(o) \/ setSendingTimeout(o) \/ setMaxSendBuffer(o)
         \/ setMaxReceiveBuffer(o) \/ setLinger(o) \/ setKeepAlive(o)
         \/ setNoDelay(o) \/ setBlocking(o)

ImplSpec == ImplInit /\ [][ImplNext]_implVars

-----------------------------------------------------------------------------

\* The variables have the values the code gives them.
ImplTypeOK ==
    /\ siFd \in [Impls -> Descriptors \cup {MinusOne}]
    /\ siRealized \in [Impls -> BOOLEAN]
    /\ siPort \in [Impls -> BOOLEAN]
    /\ siOpen \subseteq Descriptors
    /\ siOptions \in [Descriptors -> SUBSET Options]
    /\ siStatus \in [Impls -> {"BUILDED", "INITIALIZED"}]

\* No descriptor leaks and none is shared: on whichever step a call fails,
\* the open descriptors are those of the sockets, and no two have the same.
DescriptorsOwned ==
    /\ siOpen = {siFd[o] : o \in Impls} \ {MinusOne}
    /\ \A o, p \in Impls : siFd[o] = siFd[p] /\ siFd[o] # MinusOne => o = p

=============================================================================
