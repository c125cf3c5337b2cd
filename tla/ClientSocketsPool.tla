------------------------- MODULE ClientSocketsPool -------------------------
(***************************************************************************)
(* The pool of connected client sockets (Socket/src/ClientSocketsPool) and *)
(* the client socket it hands out (Socket/src/ClientSocket).  Every method *)
(* of the pool holds its mutex from its first to its last line, so that a  *)
(* call is one step whatever the network does during it.                   *)
(*                                                                         *)
(* A client socket is its status, what is known of its connection, and the *)
(* time since it connected: a connection that the peer closed is not seen  *)
(* until it is used.  An operation of a client socket has a set of  *)
(* outcomes: the socket it leaves and whether it reports success.          *)
(***************************************************************************)
EXTENDS Integers, Sequences, FiniteSets

Vector == INSTANCE SequencesExt  \* std::vector: ToSet

CONSTANTS RemoteAddresses,
          PerAddress,     \* _ulClientSocketsToBeAllocatedPerType
          TTL,            \* _lTTLInSeconds, NoTTL for -1
          NoTTL,
          MaxAge,         \* a bound on the time that is told apart
          SocketUsers     \* the threads that use the pool

ASSUME ClientSocketsAssumption ==
    /\ PerAddress \in Nat /\ MaxAge \in Nat
    /\ TTL = NoTTL \/ TTL \in 0..MaxAge

VARIABLES csKnown,   \* the addresses of _phmClientSocketsInfo
          csFree,    \* _vFreeClientSockets of every address
          csSocket,  \* the client sockets of every address
          csUsed     \* the sockets that every user holds

clientPoolVars == <<csKnown, csFree, csSocket, csUsed>>

Builded == [status |-> "BUILDED", connection |-> "none", age |-> 0]
Connected == [status |-> "INITIALIZED", connection |-> "up", age |-> 0]
\* _tConnectUTCStartTimeInSeconds is still 0.
NotConnected == [status |-> "INITIALIZED", connection |-> "none", age |-> MaxAge]

Outcome(s, ok) == [socket |-> s, ok |-> ok]

-----------------------------------------------------------------------------
(* ClientSocket *)

\* close may fail, and then the socket stays initialized.
finishClientSocket(s) ==
    IF s.status = "BUILDED" THEN {Outcome(s, FALSE)}
    ELSE {Outcome(Builded, TRUE), Outcome(s, FALSE)}

\* What is left when a step of init fails: finish, its result ignored.
GivenUp == {Builded, NotConnected}

\* create, bind and connect report their failure.  setNoDelay, setKeepAlive
\* and the sizes of the buffers return the result of bind, which succeeded.
initClientSocket(s) ==
    IF s.status # "BUILDED" THEN {Outcome(s, FALSE)}
    ELSE {Outcome(Connected, TRUE), Outcome(Builded, FALSE)}
         \cup {Outcome(t, FALSE) : t \in GivenUp}
         \cup {Outcome(t, TRUE) : t \in GivenUp}

reinitClientSocket(s) ==
    UNION {IF f.ok THEN initClientSocket(f.socket) ELSE {f} :
             f \in finishClientSocket(s)}

-----------------------------------------------------------------------------
(* ClientSocketsPool *)

ClientPoolInit ==
    /\ csKnown = {}
    /\ csFree = [a \in RemoteAddresses |-> <<>>]
    /\ csSocket = [a \in RemoteAddresses |-> [i \in 1..PerAddress |-> Builded]]
    /\ csUsed = [u \in SocketUsers |-> {}]

\* The first request for an address allocates its sockets, all of them free.
FreeOf(a) ==
    IF a \in csKnown THEN csFree[a] ELSE [i \in 1..PerAddress |-> i]

\* Mutant: the age is compared with the wrong bound.
TooOldLate(s) == TTL # NoTTL /\ s.age > TTL

TooOld(s) == TTL # NoTTL /\ s.age >= TTL

\* A socket that is initialized is made new when it is too old or when it
\* cannot be written to within a second.  poll reports a connection that the
\* peer closed, and a socket that never connected, as ready.  When reinit reports success for a
\* socket without SocketImpl, the process crashes and there is no outcome.
Refreshed(s) ==
    LET young == IF TooOld(s) THEN reinitClientSocket(s) ELSE {Outcome(s, TRUE)}
        checked(o) ==
            IF ~o.ok THEN {o}
            ELSE IF o.socket.status = "BUILDED" THEN {}  \* a null SocketImpl
            ELSE {o, Outcome(o.socket, FALSE)}       \* the check itself fails
                 \cup reinitClientSocket(o.socket)   \* not ready for writing
    IN UNION {checked(o) : o \in young}

Prepared(s) == IF s.status = "BUILDED" THEN initClientSocket(s) ELSE Refreshed(s)

\* The first free socket is taken out of the free ones before it is prepared;
\* when that fails nobody puts it back.
getFreeClientSocket(u, a) ==
    LET i == Head(FreeOf(a))
    IN /\ csKnown' = csKnown \cup {a}
       /\ IF FreeOf(a) = <<>>
          THEN UNCHANGED <<csFree, csSocket, csUsed>>
          ELSE /\ csFree' = [csFree EXCEPT ![a] = Tail(FreeOf(a))]
               /\ \E o \in Prepared(csSocket[a][i]) :
                    /\ csSocket' = [csSocket EXCEPT ![a][i] = o.socket]
                    /\ csUsed' = IF o.ok THEN [csUsed EXCEPT ![u] = @ \cup {<<a, i>>}]
                                 ELSE csUsed

\* A user gives back a socket it holds, at the front of the free ones, after
\* closing it if it asked for that; a failure to close loses the socket.
releaseClientSocket(u, a, i, toBeClosed) ==
    /\ <<a, i>> \in csUsed[u]
    /\ csUsed' = [csUsed EXCEPT ![u] = @ \ {<<a, i>>}]
    /\ \E o \in IF toBeClosed THEN finishClientSocket(csSocket[a][i])
                ELSE {Outcome(csSocket[a][i], TRUE)} :
         /\ csSocket' = [csSocket EXCEPT ![a][i] = o.socket]
         /\ csFree' = IF o.ok THEN [csFree EXCEPT ![a] = <<i>> \o @] ELSE csFree
    /\ UNCHANGED csKnown

\* The overload for a string does not pass bSocketToBeClosed on.
releaseClientSocketByName(u, a, i, toBeClosed) ==
    releaseClientSocket(u, a, i, FALSE)

\* finish closes and frees every socket, whoever holds it; a user that keeps
\* one breaks the rules of the pool.
finishClientPool ==
    /\ \A u \in SocketUsers : csUsed[u] = {}
    /\ csKnown' = {}
    /\ csFree' = [a \in RemoteAddresses |-> <<>>]
    /\ csSocket' = [a \in RemoteAddresses |-> [i \in 1..PerAddress |-> Builded]]
    /\ UNCHANGED csUsed

\* Time passes for the sockets that connected, and a peer may close a connection.
TimePasses ==
    /\ csSocket' = [a \in RemoteAddresses |-> [i \in 1..PerAddress |->
                      [csSocket[a][i] EXCEPT
                         !.age = IF csSocket[a][i].connection # "none" /\ @ < MaxAge
                                 THEN @ + 1 ELSE @]]]
    /\ UNCHANGED <<csKnown, csFree, csUsed>>

PeerCloses(a, i) ==
    /\ csSocket[a][i].connection = "up"
    /\ csSocket' = [csSocket EXCEPT ![a][i].connection = "closed"]
    /\ UNCHANGED <<csKnown, csFree, csUsed>>

ClientPoolNext ==
    \/ \E u \in SocketUsers, a \in RemoteAddresses : getFreeClientSocket(u, a)
    \/ \E u \in SocketUsers, a \in RemoteAddresses, i \in 1..PerAddress, c \in BOOLEAN :
         \/ releaseClientSocket(u, a, i, c)
         \/ releaseClientSocketByName(u, a, i, c)
    \/ finishClientPool
    \/ TimePasses
    \/ \E a \in RemoteAddresses, i \in 1..PerAddress : PeerCloses(a, i)

ClientPoolSpec == ClientPoolInit /\ [][ClientPoolNext]_clientPoolVars

-----------------------------------------------------------------------------

\* The variables have the values the code gives them.
ClientPoolTypeOK ==
    /\ csKnown \subseteq RemoteAddresses
    /\ csFree \in [RemoteAddresses -> Seq(1..PerAddress)]
    /\ csSocket \in [RemoteAddresses -> [1..PerAddress ->
                       [status : {"BUILDED", "INITIALIZED"},
                        connection : {"none", "up", "closed"}, age : 0..MaxAge]]]
    /\ csUsed \in [SocketUsers -> SUBSET (RemoteAddresses \X (1..PerAddress))]

\* No client socket is used by two users, or used and free, or free twice.
ClientSocketUsedOnce ==
    \A a \in RemoteAddresses :
        /\ Cardinality(Vector!ToSet(csFree[a])) = Len(csFree[a])
        /\ \A i \in 1..PerAddress :
             LET users == {u \in SocketUsers : <<a, i>> \in csUsed[u]}
             IN /\ Cardinality(users) <= 1
                /\ i \in Vector!ToSet(csFree[a]) => users = {}

\* A connection that is handed out is new or younger than the time to live,
\* however long the socket was free or used before; whether the peer still
\* has it the pool does not know.
HandedOutIsYoung ==
    [][\A u \in SocketUsers : \A x \in csUsed'[u] \ csUsed[u] :
         LET s == csSocket'[x[1]][x[2]]
         IN s.connection # "none" =>
              s.age = 0 \/ ~(TTL # NoTTL /\ s.age >= TTL)]_clientPoolVars

\* getClientSocket never hands out a socket that somebody has, nor one that has
\* outlived its time, whatever failed on its way back into the pool.
ClientSocketsSafe == []ClientPoolTypeOK /\ []ClientSocketUsedOnce /\ HandedOutIsYoung

=============================================================================
