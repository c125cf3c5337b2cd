SPECIFICATION MCWebSpec
CONSTANTS
    m1 = m1
    m2 = m2
    LbModules = {m1, m2}
    LbConfigs <- MCLbConfigs
    NoGroup = "none"
    LbWithURL = {m2}
    LbRetry = 0
    LbPatience = 1
    LbMaxTime = 1
    CmUris = {u1, u2}
    CmKeys = {k1, k2}
    CmClients = {c1, c2}
    CmRequests = {r1, r2}
    CmSlots = 2
    NoUri = NoUri
    NoKey = NoKey
    CmRetention = 0
    CmPatience = 1
    CmMaxTime = 1
    CmMaxCalls = 2
    MaxGets = 2
    BodyLengths = {0, 1, 3}
    NoLength = 99
    MaxBody = 3
    HmStreams <- MCHmStreams
    HmNoLength = 99
    HmBuffer = 6
    UrlChars = {"a", "2", "+", "%", "&", "space"}
    UrlLength = 4
    MaxServed = 2
    HsPatience = 1
    HsMaxTime = 2
CHECK_DEADLOCK FALSE
INVARIANTS CacheConsistent WebResourcesOwned
PROPERTIES MessagesWhole RoundRobin WebCallsEnd
