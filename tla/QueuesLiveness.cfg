SPECIFICATION QueuesFairSpec
CONSTANTS
  Threads = {t1, t2}
  EsThreads = {u1, u2}
  Destinations = {d1}
  EsDestinations = {d1}
  Events = {e1, e2}
  EsEvents = {e1, e2}
  Waits = {1}
  EsWaits = {1}
  MaxTime = 1
  EsMaxTime = 1
  Offsets = {0}
  DuplicateKeys = FALSE
  NoThread = NoThread
  InSet = InSet
  EsInSet = InSet
PROPERTIES CallReturns ImplementsDeadlineQueue EsCallReturns
