SPECIFICATION MCSpec
CONSTANTS
  CmSessions = {1}
  CmProcs = {"p", "q"}
  CmTTL = 1
  CmMaxAccept = 1
  CmProxied = TRUE
  CmConns = 2
  CmLastRequest = 2
  CmMaxRequests = 1
  CmMaxFailures = 1
  CeProcs = {"p"}
  CeBlock = 1
  CeEvery = 2
  CeMaxQueue = 2
  CeMaxTrouble = 1
  SvSessions = 2
  SvProcessors = 2
CHECK_DEADLOCK FALSE
INVARIANTS SessionsOwned EventsWhole ServiceWhole
PROPERTIES ServerGoesOn
