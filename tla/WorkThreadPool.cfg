CONSTANTS
  w1 = w1  w2 = w2  w3 = w3
  PoolSize = 2
  StartedThreads = 2
  MaxSecondary = 0
  CacheSize = 2
  BusySize = 2
  VeryBusySize = 1
  IndexModulus = 4
  Works = {w1, w2, w3}
  Null = Null
  Timed = {}
  Times <- Once
  InitFails = {w3}
  Child <- Nested
SPECIFICATION Spec
INVARIANTS PoolConsistent
PROPERTIES ImplementsWorkService
