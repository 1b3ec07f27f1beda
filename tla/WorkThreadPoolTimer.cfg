CONSTANTS
  w1 = w1  w2 = w2  w3 = w3
  PoolSize = 2
  StartedThreads = 2
  MaxSecondary = 1
  CacheSize = 2
  BusySize = 2
  VeryBusySize = 1
  IndexModulus = 4
  Works = {w1}
  Null = Null
  Timed = {w1}
  Times <- TwiceFirst
  InitFails = {}
  Child <- NoChildren
SPECIFICATION FairSpec
INVARIANTS OnlyLateTimerPushesDangle
PROPERTIES ExitReturns EveryFutureIsReleased
