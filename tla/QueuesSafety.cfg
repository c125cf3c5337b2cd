SPECIFICATION QueuesSpec
CONSTANTS
  Threads = {t1, t2, t3}
  EsThreads = {u1, u2}
  Destinations = {d1}
  EsDestinations = {d1}
  Events = {e1, e2}
  EsEvents = {e1, e2}
  Waits = {1}
  EsWaits = {1, 2}
  MaxTime = 2
  EsMaxTime = 2
  Offsets = {1}
  DuplicateKeys = FALSE
  NoThread = NoThread
  InSet = InSet
  EsInSet = InSet
SYMMETRY Symmetry
INVARIANTS OrderedSet HeldOnce LoopNeverFindsEmpty EsHeldOnce WaitsWithinBlockingTime
PROPERTIES NullOnlyAfterBlockingTime DeliveredInTime
