SPECIFICATION FsSpec
CONSTANTS
  FsProcs = {"p", "q"}
  FsTrees <- MCTrees
  FsRequests <- MCRequests
  FsTogether = {"moveDirectory", "moveFile"}
  FsMaxCalls = 2
  FsLastInode = 9
  FsMaxFaults = 1
CHECK_DEADLOCK FALSE
INVARIANTS TreesWhole
PROPERTIES CallsEndClean
