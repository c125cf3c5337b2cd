SPECIFICATION PoolsSpec
CONSTANTS
    Clients = {c1, c2}
    Types = {ty1, ty2}
    Blocks = {1, 2}
    Maxes = {2, 3, 4}
    DefaultBlockEventsNumber = 1
    DefaultMaxEventsNumberToBeAllocated = 3
    a = a
    b = b
    c = c
    Attributes = {"priority", "inheritScheduling", "schedulingPolicy", "stackSize"}
    MaxRuns = 2
    PoolSockets = {a, b, c}
    ulMaxSocketsNumber = 2
    NoPort = NoPort
    LocalPort <- MCLocalPort
    PollTime = 1
    bAllowDeletion = TRUE
    RemoteAddresses = {"host"}
    PerAddress = 3
    TTL = 2
    NoTTL = NoTTL
    MaxAge = 2
    SocketUsers = {"u1", "u2"}
    Descriptors = {1, 2, 3}
    MinusOne = MinusOne
    Streams <- MCStreamsOf
    BufferSize = 3
    Pattern <- MCPattern
    Reply <- MCReply
    WaitTime = 4
CHECK_DEADLOCK FALSE
INVARIANTS NoLeakNoDuplicate OneHolder WithinMax PoolConsistent TextKept
PROPERTIES ClientSocketsSafe KernelResourcesOwned ShutdownEndsPool
