CONSTANTS
  w1 = w1  w2 = w2  w3 = w3
  PoolSize = 2
  StartedThreads = 1
  MaxSecondary = 0
  CacheSize = 2
  BusySize = 2
  VeryBusySize = 2
  IndexModulus = 4
  Works = {w1, w2}
  Null = Null
  Timed = {}
  Times <- Once
  InitFails = {}
  Child <- NoChildren
SPECIFICATION Spec
INVARIANTS QueuesStoppedBeforeDelete
