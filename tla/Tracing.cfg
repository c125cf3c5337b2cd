SPECIFICATION MCSpec
CONSTANTS
  TrClients = {"c1", "c2"}
  TrMaxTraces = 1
  TrOverflow = 1
  TrCacheSize = 3
  TrSizes = {2, 4}
  TrOnTTY = FALSE
  TrLevel = 0
  TrMaxCalls = 2
  TrMaxSets = 1
  TfProcs = {"p", "q"}
  TfMaintain = 2
  TfLast = 4
  TfCompressed = TRUE
  TfMaxShared = 1
  TfMaxFailures = 2
CHECK_DEADLOCK FALSE
INVARIANTS TracesKept
PROPERTIES TraceFilesKept TracerGoesOn
