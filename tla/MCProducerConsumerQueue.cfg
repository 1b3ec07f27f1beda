CONSTANTS
  p1 = p1
  c1 = c1  c2 = c2
  v1 = v1  v2 = v2
  Producers = {p1}
  Consumers = {c1, c2}
  Stopper = Stopper
  Null = Null
  Values = {v1, v2}
  MaxNum = 2
  SizeModulus = 4
SPECIFICATION LoopSpec
INVARIANTS NoLostWakeup NobodySleepsThroughStop SizeAccounting
PROPERTIES ImplementsQueue StopReleasesConsumers EveryValueIsTaken
